---- MODULE Spec2Model ----
(***************************************************************************)
(* Model of the mebuki financial-analysis core: period reconciliation      *)
(* (mebuki/utils/financial_data.py), value validation                       *)
(* (mebuki/utils/converters.py), metrics derivation                         *)
(* (mebuki/analysis/calculator.py), price alignment                         *)
(* (mebuki/api/jquants_client.py) and the analysis orchestration with its   *)
(* cache (backend/services/analyzer.py, mebuki/utils/cache.py).             *)
(*                                                                          *)
(* Python strings that the code slices, compares or uses as dictionary keys *)
(* (dates) are sequences of character codes, so that "20240331" and         *)
(* "2024-03-31" are different strings that denote the same day.  A          *)
(* financial field value is a tagged record: None, the empty string, NaN or *)
(* a number.                                                                *)
(***************************************************************************)
EXTENDS Integers, Sequences, FiniteSets, TLC

VARIABLES
    quarterly_data,   \* the caller's raw-record list handed to reconciliation
    today,            \* the process clock read by datetime.now(): [y, m, d]
    variant,          \* which reconciliation the caller uses: "annual" | "quarterly"
    calls,            \* how many times reconciliation has been called on the list
    result1,          \* what the first call returned
    result2,          \* what the second call returned
    annual_data,      \* the annual timeline handed to calculate_metrics_flexible
    prices,           \* its prices argument: a dictionary from date strings
    analysis_years,   \* its analysis_years argument
    metrics,          \* what calculate_metrics_flexible returned
    all_bars,         \* the daily bars the price source holds for the instrument
    dates,            \* the dates argument of get_prices_at_dates
    bars_failed,      \* the bulk fetch of the bars raises once
    batch_raised,     \* get_prices_at_dates raises to the analyzer: the source is
                      \* down through the client's own retries and back after
    price_results,    \* what get_prices_at_dates returned
    mode,             \* the entry point called: "analyze_stock" | "analyze_stock_stream"
    analyzer,         \* the analyzer's use_cache, whether it holds a cache manager,
                      \* and the manager's enabled flag
    cache_entry,      \* the cache file and metadata date of the instrument's key
    pc,               \* where the call stands
    result,           \* the result dictionary the call builds
    outputs,          \* what the caller has received: the returned value or
                      \* the snapshots yielded so far
    source_calls,     \* requests made to the upstream sources, per kind
    queue,            \* the stream's asyncio.Queue: snapshots put and not yet yielded
    main_task,        \* where the stream's producer task (main_flow) stands
    edinet_task,      \* where the stream's filing task (edinet_flow) stands
    cache_dir,        \* the cache directory: the .pkl file of each key and metadata.json
    cache_clock,      \* the clock the cache manager reads: [day, part]
    cache_threads,    \* the cache operation each thread is in, with its copy of the metadata
    cache_stored,     \* for each key, when the value it holds was stored (history)
    cache_got,        \* what the last get returned, until another operation runs
    frames,           \* the calls of get_prices_at_dates in progress, outermost first
    outage,           \* which requests for bars the source fails: "none" | "once" | "always"
    bar_requests,     \* requests for bars made to the source
    fallback_result,  \* how the outermost get_prices_at_dates ended
    client,           \* the HTTP client whose _request is called: "jquants" | "edinet"
    api_key,          \* whether the client holds an API key
    responses,        \* what the upstream answered to each attempt so far
    waits,            \* the seconds slept before each re-attempt
    request_outcome   \* "pending" | "returned" | "raised"

reconVars == <<quarterly_data, today, variant, calls, result1, result2>>

calcVars == <<annual_data, prices, analysis_years, metrics>>

priceVars == <<all_bars, dates, bars_failed, batch_raised, price_results>>

analyzeVars == <<mode, analyzer, cache_entry, pc, result, outputs, source_calls>>

streamVars == <<queue, main_task, edinet_task>>

cacheVars == <<cache_dir, cache_clock, cache_threads, cache_stored, cache_got>>

fallbackVars == <<frames, outage, bar_requests, fallback_result>>

\* the variables of the parts below the cache manager
retryVars == <<client, api_key, responses, waits, request_outcome>>

otherVars == <<fallbackVars, retryVars>>

\* the variables that the degraded price path leaves alone
notFallback == <<reconVars, calcVars, priceVars, analyzeVars, streamVars, cacheVars, retryVars>>

\* the variables that a request of an HTTP client leaves alone
notRetry == <<reconVars, calcVars, priceVars, analyzeVars, streamVars, cacheVars, fallbackVars>>

vars == <<reconVars, calcVars, priceVars, analyzeVars, streamVars, cacheVars, otherVars>>

\* the variables that the reconciliation calls leave alone
notRecon == <<calcVars, priceVars, analyzeVars, streamVars, cacheVars, otherVars>>

\* the variables that the metrics derivation leaves alone, the clock apart
notCalc == <<quarterly_data, variant, calls, result1, result2, priceVars, analyzeVars, streamVars, cacheVars, otherVars>>

\* the variables that the price alignment leaves alone
notPrice == <<reconVars, calcVars, analyzeVars, streamVars, cacheVars, otherVars>>

\* the variables that an analysis call leaves alone
notAnalyze == <<reconVars, calcVars, priceVars, streamVars, cacheVars, otherVars>>

\* the variables that a streaming analysis with its tasks leaves alone
notStream == <<reconVars, calcVars, priceVars, cacheVars, otherVars>>

\* the variables that the operations of the cache manager leave alone
notCache == <<reconVars, calcVars, priceVars, analyzeVars, streamVars, otherVars>>

----------------------------------------------------------------------------
(* Strings as sequences of character codes *)

\* the character of a decimal digit: chr(ord("0") + n)
Digit(n) == 48 + n

\* the character "-": ord("-")
DashChar == 45

IsDigit(c) == c >= 48 /\ c <= 57

\* f"{n:02d}" and f"{n:04d}" for a non-negative number
Fmt2(n) == <<Digit((n \div 10) % 10), Digit(n % 10)>>
Fmt4(n) == <<Digit((n \div 1000) % 10), Digit((n \div 100) % 10)>> \o Fmt2(n % 100)

\* the two accepted spellings of a calendar date
Compact(y, m, d) == Fmt4(y) \o Fmt2(m) \o Fmt2(d)
Dashed(y, m, d) == Fmt4(y) \o <<DashChar>> \o Fmt2(m) \o <<DashChar>> \o Fmt2(d)

\* a period end that is neither spelling: YYYY-MM
YearMonth(y, m) == Fmt4(y) \o <<DashChar>> \o Fmt2(m)

\* a period end of 10 characters whose month is no number: 2024-XX-31
MalformedFyEnd == Fmt4(2024) \o <<DashChar, 88, 88, DashChar>> \o Fmt2(31)

\* Python's s[a:b] (0-based, b exclusive), clipped to the string
Slice(s, a, b) == SubSeq(s, a + 1, IF b > Len(s) THEN Len(s) ELSE b)

\* Python's str < str: lexicographic by code point, a proper prefix is smaller
RECURSIVE StrLess(_, _)
StrLess(a, b) ==
    IF b = <<>> THEN FALSE
    ELSE IF a = <<>> THEN TRUE
    ELSE IF Head(a) # Head(b) THEN Head(a) < Head(b)
    ELSE StrLess(Tail(a), Tail(b))

\* int(s) for a string of decimal digits; ok = FALSE is Python's ValueError
RECURSIVE DigitsValue(_)
DigitsValue(s) ==
    IF s = <<>> THEN 0
    ELSE 10 * DigitsValue(SubSeq(s, 1, Len(s) - 1)) + (s[Len(s)] - 48)

ParseInt(s) ==
    IF s # <<>> /\ \A i \in 1..Len(s) : IsDigit(s[i])
    THEN [ok |-> TRUE, n |-> DigitsValue(s)]
    ELSE [ok |-> FALSE, n |-> 0]

IsLeap(y) == (y % 4 = 0 /\ y % 100 # 0) \/ y % 400 = 0

DaysInMonth(y, m) ==
    IF m = 2 THEN (IF IsLeap(y) THEN 29 ELSE 28)
    ELSE IF m \in {4, 6, 9, 11} THEN 30 ELSE 31

\* datetime(y, m, d) exists
ValidDate(y, m, d) ==
    /\ y >= 1 /\ m >= 1 /\ m <= 12
    /\ d >= 1 /\ d <= DaysInMonth(y, m)

\* datetime.strptime(s, "%Y%m%d") on an 8-character string
StrptimeCompact(s) ==
    LET y == ParseInt(Slice(s, 0, 4))
        m == ParseInt(Slice(s, 4, 6))
        d == ParseInt(Slice(s, 6, 8))
    IN  IF Len(s) = 8 /\ y.ok /\ m.ok /\ d.ok /\ ValidDate(y.n, m.n, d.n)
        THEN [ok |-> TRUE, y |-> y.n, m |-> m.n, d |-> d.n]
        ELSE [ok |-> FALSE, y |-> 0, m |-> 0, d |-> 0]

\* datetime.strptime(s, "%Y-%m-%d") on a 10-character string
StrptimeDashed(s) ==
    LET y == ParseInt(Slice(s, 0, 4))
        m == ParseInt(Slice(s, 5, 7))
        d == ParseInt(Slice(s, 8, 10))
    IN  IF /\ Len(s) = 10 /\ s[5] = DashChar /\ s[8] = DashChar
           /\ y.ok /\ m.ok /\ d.ok /\ ValidDate(y.n, m.n, d.n)
        THEN [ok |-> TRUE, y |-> y.n, m |-> m.n, d |-> d.n]
        ELSE [ok |-> FALSE, y |-> 0, m |-> 0, d |-> 0]

\* datetime > datetime on calendar days
DayAfter(a, b) ==
    \/ a.y > b.y
    \/ a.y = b.y /\ a.m > b.m
    \/ a.y = b.y /\ a.m = b.m /\ a.d > b.d

\* (year, month) of a date strictly after the clock's (year, month)
MonthAfterClock(a, now) == a.y > now.y \/ (a.y = now.y /\ a.m > now.m)

\* the calendar day a date string in either accepted format denotes
DateOf(s) == IF Len(s) = 8 THEN StrptimeCompact(s) ELSE StrptimeDashed(s)

----------------------------------------------------------------------------
(* Field values and their validation (converters.py) *)

Null == [t |-> "None", v |-> 0]
Empty == [t |-> "empty", v |-> 0]
NaN == [t |-> "nan", v |-> 0]
Num(n) == [t |-> "num", v |-> n]

is_valid_value(value) ==
    IF value = Null THEN FALSE
    ELSE IF value = Empty THEN FALSE
    ELSE IF value.t = "nan" THEN FALSE
    ELSE value.v # 0

is_valid_financial_record(record) ==
    LET has_financial_data ==
            \/ is_valid_value(record.Sales)
            \/ is_valid_value(record.OP)
            \/ is_valid_value(record.NP)
            \/ is_valid_value(record.Eq)
    IN  \/ has_financial_data
        \/ record.CurFYEn # <<>> /\ record.DiscDate # <<>>

----------------------------------------------------------------------------
(* Raw period records (the dicts of the fin-summary response) *)

FinKeys == {"Sales", "OP", "NP", "Eq", "CFO", "CFI", "EPS", "BPS", "AvgSh"}
DateKeys == {"CurFYEn", "DiscDate", "quarter_end_date"}
RecordKeys == {"CurPerType"} \cup DateKeys \cup FinKeys

\* a raw record; quarter_end_date is the key "_quarter_end_date", <<>> while
\* the record does not carry it
RawRecord(pt, fy, dd, sales, eq, eps) ==
    [CurPerType |-> pt, CurFYEn |-> fy, DiscDate |-> dd, quarter_end_date |-> <<>>,
     Sales |-> sales, OP |-> Null, NP |-> Null, Eq |-> eq, CFO |-> Null,
     CFI |-> Null, EPS |-> eps, BPS |-> Null, AvgSh |-> Null]

\* val is None or val == "" for the value of a key
IsBlank(key, val) ==
    IF key \in FinKeys THEN val = Null \/ val = Empty
    ELSE IF key = "CurPerType" THEN val = ""
    ELSE val = <<>>

----------------------------------------------------------------------------
(* extract_annual_data (financial_data.py) *)

\* a variant of DiscDateInFuture that never excludes: the check of lines 50-66
\* left out
DiscDateInFutureUnchecked(disc_date, now) == FALSE

\* lines 50-66: the disclosure date parses and lies after now
DiscDateInFuture(disc_date, now) ==
    IF disc_date = <<>> THEN FALSE
    ELSE LET disc_date_obj ==
                 IF Len(disc_date) = 8 THEN StrptimeCompact(disc_date)
                 ELSE IF Len(disc_date) = 10 THEN StrptimeDashed(disc_date)
                 ELSE [ok |-> FALSE, y |-> 0, m |-> 0, d |-> 0]
         IN  disc_date_obj.ok /\ DayAfter(disc_date_obj, now)

\* a variant of FyEndCheck that compares the year alone
FyEndCheckYearOnly(fy_end, now) ==
    IF fy_end = <<>> THEN "pass"
    ELSE IF Len(fy_end) # 8 /\ Len(fy_end) # 10 THEN "unknown"
    ELSE LET year == ParseInt(Slice(fy_end, 0, 4))
             month == IF Len(fy_end) = 8 THEN ParseInt(Slice(fy_end, 4, 6))
                      ELSE ParseInt(Slice(fy_end, 5, 7))
         IN  IF ~year.ok \/ ~month.ok THEN "raise"
             ELSE IF year.n > now.y THEN "future"
                  ELSE "pass"

\* lines 69-85: "raise" (int() fails), "unknown" (other length: appended as
\* is), "future" (excluded) or "pass"
FyEndCheck(fy_end, now) ==
    IF fy_end = <<>> THEN "pass"
    ELSE IF Len(fy_end) # 8 /\ Len(fy_end) # 10 THEN "unknown"
    ELSE LET year == ParseInt(Slice(fy_end, 0, 4))
             month == IF Len(fy_end) = 8 THEN ParseInt(Slice(fy_end, 4, 6))
                      ELSE ParseInt(Slice(fy_end, 5, 7))
         IN  IF ~year.ok \/ ~month.ok THEN "raise"
             ELSE IF year.n > now.y \/ (year.n = now.y /\ month.n > now.m)
                  THEN "future"
                  ELSE "pass"

\* lines 38-92, one iteration of the filter loop: "skip", "keep" or "raise"
FilterRecord(record, include_2q, now) ==
    IF ~(record.CurPerType = "FY" \/ (include_2q /\ record.CurPerType = "2Q"))
    THEN "skip"
    ELSE IF DiscDateInFuture(record.DiscDate, now) THEN "skip"
    ELSE LET chk == FyEndCheck(record.CurFYEn, now)
         IN  IF chk = "raise" THEN "raise"
             ELSE IF chk = "unknown" THEN "keep"
             ELSE IF chk = "future" THEN "skip"
             ELSE IF ~is_valid_financial_record(record) THEN "skip"
             ELSE "keep"

\* lines 96-99: the sort key (CurFYEn, DiscDate), compared as Python tuples
AnnualKeyLess(a, b) ==
    IF a.CurFYEn # b.CurFYEn THEN StrLess(a.CurFYEn, b.CurFYEn)
    ELSE StrLess(a.DiscDate, b.DiscDate)

\* list.sort is stable: x goes after every element that is not greater
RECURSIVE InsertAnnualAsc(_, _)
InsertAnnualAsc(x, sorted) ==
    IF sorted = <<>> THEN <<x>>
    ELSE IF AnnualKeyLess(x, Head(sorted)) THEN <<x>> \o sorted
    ELSE <<Head(sorted)>> \o InsertAnnualAsc(x, Tail(sorted))

RECURSIVE SortAnnualAsc(_)
SortAnnualAsc(records) ==
    IF records = <<>> THEN <<>>
    ELSE InsertAnnualAsc(records[Len(records)],
                         SortAnnualAsc(SubSeq(records, 1, Len(records) - 1)))

\* a variant of MergedValue that overwrites with whatever the incoming record
\* carries, blank or not
MergedValueBlanking(key, existing_val, val) == val

\* lines 113-119: the value of key in the merged entry
MergedValue(key, existing_val, val) ==
    IF key = "DiscDate" THEN val
    ELSE IF (key \in FinKeys /\ is_valid_value(val)) \/ ~IsBlank(key, val) THEN val
    ELSE existing_val

MergeRecord(existing_record, record) ==
    [key \in RecordKeys |-> MergedValue(key, existing_record[key], record[key])]

\* lines 101-119: seen_years as the list of its values in insertion order
RECURSIVE FoldYears(_, _)
FoldYears(records, seen_years) ==
    IF records = <<>> THEN seen_years
    ELSE LET record == Head(records)
             fy_end == record.CurFYEn
             at == {i \in 1..Len(seen_years) : seen_years[i].CurFYEn = fy_end}
         IN  IF fy_end = <<>> THEN FoldYears(Tail(records), seen_years)
             ELSE IF at = {} THEN FoldYears(Tail(records), Append(seen_years, record))
             ELSE LET i == CHOOSE j \in at : TRUE
                  IN  FoldYears(Tail(records),
                                [seen_years EXCEPT ![i] = MergeRecord(@, record)])

\* line 123: sort(key=CurFYEn, reverse=True), stable
RECURSIVE InsertFyDesc(_, _)
InsertFyDesc(x, sorted) ==
    IF sorted = <<>> THEN <<x>>
    ELSE IF StrLess(Head(sorted).CurFYEn, x.CurFYEn) THEN <<x>> \o sorted
    ELSE <<Head(sorted)>> \o InsertFyDesc(x, Tail(sorted))

RECURSIVE SortFyDesc(_)
SortFyDesc(records) ==
    IF records = <<>> THEN <<>>
    ELSE InsertFyDesc(records[Len(records)],
                      SortFyDesc(SubSeq(records, 1, Len(records) - 1)))

\* the indices of the records the filter loop appends to annual_data
KeptIndices(records, include_2q, now) ==
    {i \in 1..Len(records) : FilterRecord(records[i], include_2q, now) = "keep"}

RECURSIVE SelectIndices(_, _, _)
SelectIndices(records, keep, i) ==
    IF i > Len(records) THEN <<>>
    ELSE (IF i \in keep THEN <<records[i]>> ELSE <<>>)
         \o SelectIndices(records, keep, i + 1)

\* the whole function: raised (an exception leaves it) or the returned list
extract_annual_data(records, include_2q, now) ==
    IF \E i \in 1..Len(records) : FilterRecord(records[i], include_2q, now) = "raise"
    THEN [raised |-> TRUE, value |-> <<>>]
    ELSE [raised |-> FALSE,
          value |-> SortFyDesc(FoldYears(SortAnnualAsc(
                        SelectIndices(records, KeptIndices(records, include_2q, now), 1)),
                        <<>>))]

----------------------------------------------------------------------------
(* extract_quarterly_data (financial_data.py) *)

QuarterTypes == {"1Q", "2Q", "3Q", "4Q", "Q1", "Q2", "Q3", "Q4"}

\* the default of the parameter quarters
DefaultQuarters == 8

\* lines 400-409
QuarterNum(per_type) ==
    IF per_type \in {"1Q", "Q1"} THEN 1
    ELSE IF per_type \in {"2Q", "Q2"} THEN 2
    ELSE IF per_type \in {"3Q", "Q3"} THEN 3
    ELSE IF per_type \in {"4Q", "Q4"} THEN 4
    ELSE 0

\* lines 420-455: the quarter end as [y, m, d]
QuarterEndOf(fy_year, fy_month, fy_day, quarter_num) ==
    LET ymd(y, m, d) == [y |-> y, m |-> m, d |-> d]
    IN  IF quarter_num = 4 THEN ymd(fy_year, fy_month, fy_day)
        ELSE IF fy_month = 3 THEN
            (IF quarter_num = 1 THEN ymd(fy_year - 1, 6, 30)
             ELSE IF quarter_num = 2 THEN ymd(fy_year - 1, 9, 30)
             ELSE ymd(fy_year - 1, 12, 31))
        ELSE IF fy_month = 12 THEN
            (IF quarter_num = 1 THEN ymd(fy_year, 3, 31)
             ELSE IF quarter_num = 2 THEN ymd(fy_year, 6, 30)
             ELSE ymd(fy_year, 9, 30))
        ELSE IF fy_month = 6 THEN
            (IF quarter_num = 1 THEN ymd(fy_year - 1, 9, 30)
             ELSE IF quarter_num = 2 THEN ymd(fy_year - 1, 12, 31)
             ELSE ymd(fy_year, 3, 31))
        ELSE IF fy_month = 9 THEN
            (IF quarter_num = 1 THEN ymd(fy_year - 1, 12, 31)
             ELSE IF quarter_num = 2 THEN ymd(fy_year, 3, 31)
             ELSE ymd(fy_year, 6, 30))
        ELSE ymd(fy_year, fy_month, fy_day)

\* lines 411-459: the quarter end of the parsed fiscal year end, as a
\* YYYY-MM-DD string, <<>> for None
QuarterEndString(y, m, d, q) ==
    IF ~y.ok \/ ~m.ok \/ ~d.ok THEN <<>>
    ELSE IF q = 0 THEN <<>>
    ELSE IF ~ValidDate(QuarterEndOf(y.n, m.n, d.n, q).y,
                       QuarterEndOf(y.n, m.n, d.n, q).m,
                       QuarterEndOf(y.n, m.n, d.n, q).d) THEN <<>>
    ELSE Dashed(QuarterEndOf(y.n, m.n, d.n, q).y,
                QuarterEndOf(y.n, m.n, d.n, q).m,
                QuarterEndOf(y.n, m.n, d.n, q).d)

\* _calculate_quarter_end_date: the YYYY-MM-DD string, <<>> for None
calculate_quarter_end_date(fy_end, per_type) ==
    IF Len(fy_end) = 8
    THEN QuarterEndString(ParseInt(Slice(fy_end, 0, 4)), ParseInt(Slice(fy_end, 4, 6)),
                          ParseInt(Slice(fy_end, 6, 8)), QuarterNum(per_type))
    ELSE IF Len(fy_end) = 10
    THEN QuarterEndString(ParseInt(Slice(fy_end, 0, 4)), ParseInt(Slice(fy_end, 5, 7)),
                          ParseInt(Slice(fy_end, 8, 10)), QuarterNum(per_type))
    ELSE <<>>

\* lines 506-514: FY value minus 3Q value
subtract_values(fy_val, q3_val) ==
    IF fy_val = Empty \/ q3_val = Empty THEN Null
    ELSE IF fy_val = NaN \/ q3_val = NaN THEN NaN
    ELSE LET fy_float == IF fy_val = Null THEN 0 ELSE fy_val.v
             q3_float == IF q3_val = Null THEN 0 ELSE q3_val.v
             difference == fy_float - q3_float
         IN  IF difference # 0 THEN Num(difference) ELSE Null

\* a variant of IsFyRecord that also takes the 4Q records as full-year sources
IsFyRecordOr4Q(record) == record.CurPerType \in {"FY", "4Q"}

\* line 493: the records a 4Q is synthesized from
IsFyRecord(record) == record.CurPerType = "FY"

\* lines 485-490: q3_records_by_fy.get(fy_end), as the index of the record
\* (0: none); the last 3Q record of the fiscal year wins
Q3IndexOf(records, fy_end) ==
    LET at == {i \in 1..Len(records) :
                  /\ records[i].CurPerType = "3Q"
                  /\ records[i].CurFYEn # <<>>
                  /\ records[i].CurFYEn = fy_end}
    IN  IF at = {} THEN 0 ELSE CHOOSE i \in at : \A j \in at : j <= i

\* lines 504-525: the 4Q record of a FY record that has a 3Q record
SubtractQ3(fy_record, q3_record) ==
    [fy_record EXCEPT
        !.CurPerType = "4Q",
        !.Sales = subtract_values(@, q3_record.Sales),
        !.OP = subtract_values(@, q3_record.OP),
        !.NP = subtract_values(@, q3_record.NP),
        !.EPS = subtract_values(@, q3_record.EPS),
        !.CFO = subtract_values(@, q3_record.CFO),
        !.CFI = subtract_values(@, q3_record.CFI)]

\* lines 497-525: q3 is the index of the 3Q record, 0 when there is none
MakeQ4From(fy_record, records, q3) ==
    IF q3 = 0 THEN [fy_record EXCEPT !.CurPerType = "4Q"]
    ELSE SubtractQ3(fy_record, records[q3])

\* lines 499-525: the 4Q record made from a FY record
MakeQ4(fy_record, records) ==
    MakeQ4From(fy_record, records, Q3IndexOf(records, fy_record.CurFYEn))

\* lines 493-527: the 4Q records appended to the caller's list, in order
RECURSIVE SynthesizedQ4(_, _)
SynthesizedQ4(records, i) ==
    IF i > Len(records) THEN <<>>
    ELSE (IF IsFyRecord(records[i]) /\ records[i].CurFYEn # <<>>
          THEN <<MakeQ4(records[i], records)>> ELSE <<>>)
         \o SynthesizedQ4(records, i + 1)

\* lines 546-561: the rest of an iteration once the quarter end is computed
ProcessWithEnd(record, quarter_end_date, now) ==
    IF quarter_end_date = <<>>
    THEN [rec |-> record, keep |-> is_valid_financial_record(record)]
    ELSE [rec |-> [record EXCEPT !.quarter_end_date = quarter_end_date],
          keep |-> /\ ~MonthAfterClock(DateOf(quarter_end_date), now)
                   /\ is_valid_financial_record(record)]

\* lines 531-561, one iteration: the record as the loop leaves it (the key
\* _quarter_end_date is written into the caller's record) and whether it is
\* appended to quarterly_records
ProcessQuarter(record, now) ==
    IF record.CurPerType \notin QuarterTypes THEN [rec |-> record, keep |-> FALSE]
    ELSE IF record.CurFYEn = <<>> THEN [rec |-> record, keep |-> FALSE]
    ELSE ProcessWithEnd(record,
                        calculate_quarter_end_date(record.CurFYEn, record.CurPerType),
                        now)

\* lines 565-570
QuarterSortKeyDisc(disc_date) ==
    IF disc_date # <<>> /\ Len(disc_date) = 8
    THEN Slice(disc_date, 0, 4) \o <<DashChar>> \o Slice(disc_date, 4, 6)
         \o <<DashChar>> \o Slice(disc_date, 6, 8)
    ELSE disc_date

QuarterKeyLess(a, b) ==
    IF a.quarter_end_date # b.quarter_end_date
    THEN StrLess(a.quarter_end_date, b.quarter_end_date)
    ELSE StrLess(QuarterSortKeyDisc(a.DiscDate), QuarterSortKeyDisc(b.DiscDate))

\* line 572: stable ascending sort
RECURSIVE InsertQuarterAsc(_, _)
InsertQuarterAsc(x, sorted) ==
    IF sorted = <<>> THEN <<x>>
    ELSE IF QuarterKeyLess(x, Head(sorted)) THEN <<x>> \o sorted
    ELSE <<Head(sorted)>> \o InsertQuarterAsc(x, Tail(sorted))

RECURSIVE SortQuarterAsc(_)
SortQuarterAsc(records) ==
    IF records = <<>> THEN <<>>
    ELSE InsertQuarterAsc(records[Len(records)],
                          SortQuarterAsc(SubSeq(records, 1, Len(records) - 1)))

\* lines 580-584
QuarterKey(record) ==
    IF record.quarter_end_date = <<>> THEN <<record.CurFYEn, record.CurPerType>>
    ELSE <<record.quarter_end_date, record.CurPerType>>

\* lines 574-597: seen_quarters as the list of its values in insertion order
RECURSIVE FoldQuarters(_, _)
FoldQuarters(records, seen_quarters) ==
    IF records = <<>> THEN seen_quarters
    ELSE LET record == Head(records)
             at == {i \in 1..Len(seen_quarters) :
                       QuarterKey(seen_quarters[i]) = QuarterKey(record)}
         IN  IF record.quarter_end_date = <<>> /\ record.CurFYEn = <<>>
             THEN FoldQuarters(Tail(records), seen_quarters)
             ELSE IF at = {}
             THEN FoldQuarters(Tail(records), Append(seen_quarters, record))
             ELSE LET i == CHOOSE j \in at : TRUE
                  IN  FoldQuarters(Tail(records),
                                   [seen_quarters EXCEPT ![i] = MergeRecord(@, record)])

\* line 603: sort by (_quarter_end_date, DiscDate), reverse=True, stable
QuarterKeyLessRaw(a, b) ==
    IF a.quarter_end_date # b.quarter_end_date
    THEN StrLess(a.quarter_end_date, b.quarter_end_date)
    ELSE StrLess(a.DiscDate, b.DiscDate)

RECURSIVE InsertQuarterDesc(_, _)
InsertQuarterDesc(x, sorted) ==
    IF sorted = <<>> THEN <<x>>
    ELSE IF QuarterKeyLessRaw(Head(sorted), x) THEN <<x>> \o sorted
    ELSE <<Head(sorted)>> \o InsertQuarterDesc(x, Tail(sorted))

RECURSIVE SortQuarterDesc(_)
SortQuarterDesc(records) ==
    IF records = <<>> THEN <<>>
    ELSE InsertQuarterDesc(records[Len(records)],
                           SortQuarterDesc(SubSeq(records, 1, Len(records) - 1)))

\* lines 531-561: every record of the list through the filter loop
ProcessAll(appended, now) ==
    [i \in 1..Len(appended) |-> ProcessQuarter(appended[i], now)]

\* line 561: quarterly_records
KeptQuarters(processed) ==
    SelectIndices([i \in 1..Len(processed) |-> processed[i].rec],
                  {i \in 1..Len(processed) : processed[i].keep}, 1)

\* lines 606-626: result = unique_quarterly_data[:quarters]
FirstQuarters(unique_quarterly_data, quarters) ==
    SubSeq(unique_quarterly_data, 1,
           IF Len(unique_quarterly_data) < quarters
           THEN Len(unique_quarterly_data) ELSE quarters)

\* lines 563-626 on the processed list; data is the caller's list as the
\* call leaves it (4Q records appended, _quarter_end_date written)
QuarterlyResult(processed, quarters) ==
    [raised |-> FALSE,
     value |-> FirstQuarters(
                   SortQuarterDesc(FoldQuarters(SortQuarterAsc(KeptQuarters(processed)),
                                                <<>>)),
                   quarters),
     data |-> [i \in 1..Len(processed) |-> processed[i].rec]]

\* the whole function
extract_quarterly_data(records, quarters, now) ==
    QuarterlyResult(ProcessAll(records \o SynthesizedQ4(records, 1), now), quarters)

\* calculate_metrics_flexible not called: no arguments, nothing returned
NoMetrics == [called |-> FALSE]

\* get_prices_at_dates not called
NoPrices == [called |-> FALSE]

PriceIdle ==
    /\ all_bars = <<>>
    /\ dates = <<>>
    /\ bars_failed = FALSE
    /\ batch_raised = FALSE
    /\ price_results = NoPrices

CalcIdle ==
    /\ annual_data = <<>>
    /\ prices = <<>>
    /\ analysis_years = 0
    /\ metrics = NoMetrics

ZeroCalls == [master |-> 0, summary |-> 0, bars |-> 0, filings |-> 0]

NoEntry == [present |-> FALSE, value |-> Null, dated |-> FALSE, age |-> 0]

\* the outcome of a call not made
NoOutcome == [done |-> FALSE]

\* get_prices_at_dates is not followed through its fallback
FallbackIdle ==
    /\ frames = <<>>
    /\ outage = "none"
    /\ bar_requests = 0
    /\ fallback_result = NoOutcome

\* no request of an HTTP client is followed
RetryIdle ==
    /\ client = "none"
    /\ api_key = FALSE
    /\ responses = <<>>
    /\ waits = <<>>
    /\ request_outcome = "none"

\* the parts below the cache manager are not looked at
OtherIdle == FallbackIdle /\ RetryIdle

\* the cache manager is not looked at
CacheIdle ==
    /\ cache_dir = <<>>
    /\ cache_clock = [day |-> 0, part |-> "am"]
    /\ cache_threads = <<>>
    /\ cache_stored = <<>>
    /\ cache_got = [called |-> FALSE]

\* no producer task, no filing task, no queue
StreamIdle ==
    /\ queue = <<>>
    /\ main_task = "none"
    /\ edinet_task = "none"

\* no analysis is called
AnalyzeIdle ==
    /\ mode = "none"
    /\ analyzer = [use_cache |-> FALSE, cache |-> FALSE, enabled |-> FALSE]
    /\ cache_entry = NoEntry
    /\ pc = "idle"
    /\ result = Null
    /\ outputs = <<>>
    /\ source_calls = ZeroCalls
    /\ StreamIdle

----------------------------------------------------------------------------
(* Annual reconciliation as a program: the caller holds a raw-record list   *)
(* and a clock, and calls extract_annual_data(financial_data)               *)

\* the longest raw-record list
MaxRecs == 2

\* two readings of the clock: before and inside March 2024
Clocks == {[y |-> 2024, m |-> 2, d |-> 15], [y |-> 2024, m |-> 3, d |-> 15]}

\* period ends in both accepted formats; 2024-03-31 in each of them
FyEnds == {Dashed(2023, 3, 31), Dashed(2024, 3, 31), Compact(2024, 3, 31)}

DiscDates == {<<>>, Dashed(2024, 2, 10), Dashed(2024, 3, 10)}

SalesValues == {Null, Num(0), Num(100), Num(120)}

AnnualRecords ==
    {RawRecord("FY", fy, dd, sales, Null, Null) :
        fy \in FyEnds, dd \in DiscDates, sales \in SalesValues}
    \cup {RawRecord("FY", Dashed(2024, 3, 31), dd, Empty, Null, Null) : dd \in DiscDates}
    \cup {RawRecord("FY", Dashed(2024, 3, 31), Dashed(2024, 3, 10), sales, Num(500), Null) :
        sales \in {Null, Num(0), NaN, Num(100)}}
    \cup {RawRecord("FY", <<>>, Dashed(2024, 2, 10), Num(100), Null, Null)}
    \cup {RawRecord("FY", YearMonth(2023, 3), <<>>, Null, Null, Null)}
    \cup {RawRecord("FY", MalformedFyEnd, Dashed(2024, 2, 10), Num(100), Null, Null)}
    \cup {RawRecord("2Q", Dashed(2024, 3, 31), Dashed(2024, 2, 10), Num(100), Null, Null)}

ListsOf(S) == UNION {[1..n -> S] : n \in 0..MaxRecs}

NoResult == [raised |-> FALSE, value |-> <<>>]

InitAnnual ==
    /\ quarterly_data \in ListsOf(AnnualRecords)
    /\ today \in Clocks
    /\ variant = "annual"
    /\ calls = 0
    /\ result1 = NoResult
    /\ result2 = NoResult
    /\ CalcIdle
    /\ PriceIdle
    /\ AnalyzeIdle
    /\ CacheIdle
    /\ OtherIdle

\* analyzer.py line 102: annual_data = extract_annual_data(financial_data)
CallExtractAnnual ==
    /\ variant = "annual"
    /\ calls = 0
    /\ result1' = extract_annual_data(quarterly_data, FALSE, today)
    /\ calls' = 1
    /\ UNCHANGED <<quarterly_data, today, variant, result2>>
    /\ UNCHANGED notRecon

NextAnnual == CallExtractAnnual

SpecAnnual == InitAnnual /\ [][NextAnnual]_vars

----------------------------------------------------------------------------
(* Reconciliation called twice in a row on the same list, same clock *)

\* fiscal years ending March 2024: the third quarter ends 2023-12-31
ReconRecords ==
    {RawRecord(pt, fy, dd, sales, Null, Null) :
        pt \in {"FY", "3Q", "4Q"},
        fy \in {Dashed(2024, 3, 31), Compact(2024, 3, 31)},
        dd \in {Dashed(2024, 2, 10), Dashed(2024, 3, 10)},
        sales \in {Num(100), Num(300)}}
    \cup {RawRecord(pt, Dashed(2024, 3, 31), Dashed(2024, 3, 10), Null, Null, Num(20)) :
        pt \in {"FY", "3Q"}}

InitRecon ==
    /\ quarterly_data \in ListsOf(ReconRecords)
    /\ today \in Clocks
    /\ variant \in {"annual", "quarterly"}
    /\ calls = 0
    /\ result1 = NoResult
    /\ result2 = NoResult
    /\ CalcIdle
    /\ PriceIdle
    /\ AnalyzeIdle
    /\ CacheIdle
    /\ OtherIdle

\* the second call of extract_annual_data on the same list
CallExtractAnnualAgain ==
    /\ variant = "annual"
    /\ calls = 1
    /\ result2' = extract_annual_data(quarterly_data, FALSE, today)
    /\ calls' = 2
    /\ UNCHANGED <<quarterly_data, today, variant, result1>>
    /\ UNCHANGED notRecon

\* extract_quarterly_data(quarterly_data): returns the list and leaves the
\* caller's list changed
CallExtractQuarterly ==
    /\ variant = "quarterly"
    /\ calls = 0
    /\ \E r \in {extract_quarterly_data(quarterly_data, DefaultQuarters, today)} :
           /\ result1' = [raised |-> r.raised, value |-> r.value]
           /\ quarterly_data' = r.data
    /\ calls' = 1
    /\ UNCHANGED <<today, variant, result2>>
    /\ UNCHANGED notRecon

CallExtractQuarterlyAgain ==
    /\ variant = "quarterly"
    /\ calls = 1
    /\ \E r \in {extract_quarterly_data(quarterly_data, DefaultQuarters, today)} :
           /\ result2' = [raised |-> r.raised, value |-> r.value]
           /\ quarterly_data' = r.data
    /\ calls' = 2
    /\ UNCHANGED <<today, variant, result1>>
    /\ UNCHANGED notRecon

NextRecon ==
    \/ CallExtractAnnual
    \/ CallExtractAnnualAgain
    \/ CallExtractQuarterly
    \/ CallExtractQuarterlyAgain

SpecRecon == InitRecon /\ [][NextRecon]_vars

----------------------------------------------------------------------------
(* Metrics derivation (mebuki/analysis/calculator.py).  A Python float is   *)
(* the rational n/d in lowest terms with d > 0; a division by zero is the   *)
(* value ZeroDivisionError, which every later operation passes on.          *)

RECURSIVE GCD(_, _)
GCD(a, b) == IF b = 0 THEN a ELSE GCD(b, a % b)

Abs(n) == IF n < 0 THEN -n ELSE n

Float(n, d) ==
    [t |-> "float", n |-> n \div GCD(Abs(n), d), d |-> d \div GCD(Abs(n), d)]

ZeroDivisionError == [t |-> "ZeroDivisionError"]

IsFloat(x) == x.t = "float"

\* x > 0 and x != 0 on floats
Positive(x) == IsFloat(x) /\ x.n > 0

NonZero(x) == IsFloat(x) /\ x.n # 0

\* value / divisor
TrueDiv(value, divisor) ==
    IF ~IsFloat(value) \/ ~IsFloat(divisor) THEN ZeroDivisionError
    ELSE IF divisor.n = 0 THEN ZeroDivisionError
    ELSE IF divisor.n < 0 THEN Float(-(value.n * divisor.d), value.d * (-divisor.n))
    ELSE Float(value.n * divisor.d, value.d * divisor.n)

\* a * b
Times(a, b) ==
    IF ~IsFloat(a) \/ ~IsFloat(b) THEN ZeroDivisionError
    ELSE Float(a.n * b.n, a.d * b.d)

\* a + b
Plus(a, b) ==
    IF ~IsFloat(a) \/ ~IsFloat(b) THEN ZeroDivisionError
    ELSE Float(a.n * b.d + b.n * a.d, a.d * b.d)

\* converters.to_float: None for None, '' and NaN
to_float(value) == IF value.t = "num" THEN Float(value.v, 1) ELSE Null

Million == 1000000

\* lines 14-18
to_millions(value) ==
    IF value = Null THEN Null ELSE TrueDiv(value, Float(Million, 1))

\* a variant of calculate_adjustment_ratio that divides the baseline by the
\* period's share count
calculate_adjustment_ratio_inverted(current_avg_sh, base_avg_sh) ==
    IF base_avg_sh # Null /\ current_avg_sh # Null /\ Positive(base_avg_sh)
    THEN TrueDiv(base_avg_sh, current_avg_sh)
    ELSE Null

\* lines 21-29
calculate_adjustment_ratio(current_avg_sh, base_avg_sh) ==
    IF base_avg_sh # Null /\ current_avg_sh # Null /\ Positive(base_avg_sh)
    THEN TrueDiv(current_avg_sh, base_avg_sh)
    ELSE Null

\* lines 32-36
apply_adjustment(value, ratio) ==
    IF value # Null /\ ratio # Null THEN Times(value, ratio) ELSE value

Hundred == Float(100, 1)

\* a variant of calculate_profitability_metrics whose ROE lacks the eq != 0
\* test
calculate_profitability_metrics_unguarded(np, op, eq, cfo) ==
    [roe |-> IF np # Null /\ eq # Null
             THEN Times(TrueDiv(np, eq), Hundred) ELSE Null,
     simple_roic |-> IF op # Null /\ eq # Null /\ NonZero(eq)
                     THEN Times(TrueDiv(op, eq), Hundred) ELSE Null,
     cf_conversion_rate |-> IF cfo # Null /\ op # Null /\ NonZero(op)
                            THEN Times(TrueDiv(cfo, op), Hundred) ELSE Null]

\* lines 39-57
calculate_profitability_metrics(np, op, eq, cfo) ==
    [roe |-> IF np # Null /\ eq # Null /\ NonZero(eq)
             THEN Times(TrueDiv(np, eq), Hundred) ELSE Null,
     simple_roic |-> IF op # Null /\ eq # Null /\ NonZero(eq)
                     THEN Times(TrueDiv(op, eq), Hundred) ELSE Null,
     cf_conversion_rate |-> IF cfo # Null /\ op # Null /\ NonZero(op)
                            THEN Times(TrueDiv(cfo, op), Hundred) ELSE Null]

\* lines 60-73
calculate_market_metrics(price, adjusted_eps, adjusted_bps) ==
    [per |-> IF price # Null /\ adjusted_eps # Null /\ Positive(adjusted_eps)
             THEN TrueDiv(price, adjusted_eps) ELSE Null,
     pbr |-> IF price # Null /\ adjusted_bps # Null /\ Positive(adjusted_bps)
             THEN TrueDiv(price, adjusted_bps) ELSE Null]

\* lines 115-126: the record's fiscal year end is in a month after the clock's
CalcFutureYear(fy_end, now) ==
    IF Len(fy_end) = 8
    THEN /\ ParseInt(Slice(fy_end, 0, 4)).ok
         /\ ParseInt(Slice(fy_end, 4, 6)).ok
         /\ MonthAfterClock([y |-> ParseInt(Slice(fy_end, 0, 4)).n,
                             m |-> ParseInt(Slice(fy_end, 4, 6)).n], now)
    ELSE IF Len(fy_end) = 10
    THEN /\ ParseInt(Slice(fy_end, 0, 4)).ok
         /\ ParseInt(Slice(fy_end, 5, 7)).ok
         /\ MonthAfterClock([y |-> ParseInt(Slice(fy_end, 0, 4)).n,
                             m |-> ParseInt(Slice(fy_end, 5, 7)).n], now)
    ELSE FALSE

\* lines 109-134: years_data, from record i of annual_data on
RECURSIVE SelectYears(_, _, _, _, _)
SelectYears(data, i, years_data, years, now) ==
    IF i > Len(data) THEN years_data
    ELSE IF \/ data[i].CurFYEn = <<>>
            \/ \E k \in 1..Len(years_data) : years_data[k].CurFYEn = data[i].CurFYEn
            \/ CalcFutureYear(data[i].CurFYEn, now)
            \/ ~is_valid_financial_record(data[i])
    THEN SelectYears(data, i + 1, years_data, years, now)
    ELSE IF Len(years_data) + 1 >= years THEN Append(years_data, data[i])
    ELSE SelectYears(data, i + 1, Append(years_data, data[i]), years, now)

\* a dictionary lookup: dict.get(key)
DictGet(dict, key) == IF key \in DOMAIN dict THEN dict[key] ELSE Null

\* fy_end.replace("-", "")
RemoveDashes(s) == SelectSeq(s, LAMBDA c : c # DashChar)

\* the truth value of a price: None and 0 are false
Truthy(value) == value # Null /\ NonZero(value)

\* lines 221-223
PriceFor(dict, fy_end) ==
    IF DOMAIN dict = {} \/ fy_end = <<>> THEN Null
    ELSE IF Truthy(DictGet(dict, fy_end)) THEN DictGet(dict, fy_end)
    ELSE DictGet(dict, RemoveDashes(fy_end))

\* lines 155-174: the fields of raw_values that the derivation uses
RawValues(year_data) ==
    [CurFYEn |-> year_data.CurFYEn,
     Sales |-> to_float(year_data.Sales),
     OP |-> to_float(year_data.OP),
     NP |-> to_float(year_data.NP),
     Eq |-> to_float(year_data.Eq),
     CFO |-> to_float(year_data.CFO),
     CFI |-> to_float(year_data.CFI),
     EPS |-> to_float(year_data.EPS),
     BPS |-> to_float(year_data.BPS),
     AvgSh |-> to_float(year_data.AvgSh)]

\* lines 177-230: calc_values from the pieces computed for the year
CalcValues(raw_values, profit_metrics, ratio, price, market_metrics) ==
    [Sales |-> to_millions(raw_values.Sales),
     OP |-> to_millions(raw_values.OP),
     NP |-> to_millions(raw_values.NP),
     Eq |-> to_millions(raw_values.Eq),
     CFO |-> to_millions(raw_values.CFO),
     CFI |-> to_millions(raw_values.CFI),
     CFC |-> IF raw_values.CFO # Null /\ raw_values.CFI # Null
             THEN Plus(to_millions(raw_values.CFO), to_millions(raw_values.CFI))
             ELSE Null,
     ROE |-> profit_metrics.roe,
     SimpleROIC |-> profit_metrics.simple_roic,
     CFCVR |-> profit_metrics.cf_conversion_rate,
     AdjustmentRatio |-> ratio,
     AdjustedEPS |-> apply_adjustment(raw_values.EPS, ratio),
     AdjustedBPS |-> apply_adjustment(raw_values.BPS, ratio),
     Price |-> price,
     PER |-> market_metrics.per,
     PBR |-> market_metrics.pbr]

\* lines 212-230 for a year whose ratio and price are known
WithRatio(raw_values, ratio, price) ==
    CalcValues(raw_values,
               calculate_profitability_metrics(
                   to_millions(raw_values.NP), to_millions(raw_values.OP),
                   to_millions(raw_values.Eq), to_millions(raw_values.CFO)),
               ratio, price,
               calculate_market_metrics(price,
                                        apply_adjustment(raw_values.EPS, ratio),
                                        apply_adjustment(raw_values.BPS, ratio)))

\* lines 151-245: one entry of years_metrics
YearMetrics(raw_values, latest_avg_sh, dict) ==
    [fy_end |-> raw_values.CurFYEn,
     RawData |-> raw_values,
     CalculatedData |->
         WithRatio(raw_values,
                   calculate_adjustment_ratio(raw_values.AvgSh, latest_avg_sh),
                   PriceFor(dict, raw_values.CurFYEn))]

\* a division by zero left some step of the year's derivation
YearRaised(entry) ==
    \E key \in DOMAIN entry.CalculatedData :
        entry.CalculatedData[key] = ZeroDivisionError

\* lines 139-271 on a non-empty years_data
MetricsOf(years_data, dict) ==
    [called |-> TRUE,
     empty |-> FALSE,
     years |-> [i \in 1..Len(years_data) |->
                   YearMetrics(RawValues(years_data[i]),
                               to_float(years_data[1].AvgSh), dict)]]

\* the call raised if a year's derivation did; nothing is returned then
Checked(derived) ==
    IF \E i \in 1..Len(derived.years) : YearRaised(derived.years[i])
    THEN [called |-> TRUE, empty |-> FALSE, raised |-> TRUE, years |-> <<>>]
    ELSE [called |-> TRUE, empty |-> FALSE, raised |-> FALSE, years |-> derived.years]

EmptyMetrics == [called |-> TRUE, empty |-> TRUE, raised |-> FALSE, years |-> <<>>]

\* {} when no year is left, the metrics otherwise
MetricsFrom(years_data, dict) ==
    IF years_data = <<>> THEN EmptyMetrics ELSE Checked(MetricsOf(years_data, dict))

\* the smaller of two numbers
Min(a, b) == IF a < b THEN a ELSE b

\* errors.py lines 99-124: validate_metrics_for_analysis, from the latest
\* year's calculated values (latest_fcf, latest_roe, latest_eps) and
\* available_years; the messages are named by what they say, and "" stands
\* for no message
validate_metrics_for_analysis(latest_calc, available_years, required_years) ==
    IF available_years < required_years
    THEN [is_valid |-> FALSE, message |-> "more years of data are needed"]
    ELSE IF latest_calc.CFC = Null /\ latest_calc.ROE = Null /\ latest_calc.AdjustedEPS = Null
    THEN [is_valid |-> FALSE, message |-> "key metrics (FCF, ROE, EPS) are missing"]
    ELSE [is_valid |-> TRUE, message |-> ""]

\* a variant of WithValidation that withholds a result that is not valid
WithValidationOrNothing(derived, validation) ==
    IF validation.is_valid
    THEN [called |-> TRUE, empty |-> FALSE, raised |-> FALSE, years |-> derived.years,
          data_valid |-> TRUE, validation_message |-> ""]
    ELSE EmptyMetrics

\* lines 266-269: data_valid and, for a result that is not valid, the
\* validation_message
WithValidation(derived, validation) ==
    [called |-> TRUE, empty |-> FALSE, raised |-> FALSE, years |-> derived.years,
     data_valid |-> validation.is_valid, validation_message |-> validation.message]

\* lines 248-271: the metrics with the outcome of the validation
Validated(derived, years) ==
    IF derived.empty \/ derived.raised THEN derived
    ELSE WithValidation(derived,
             validate_metrics_for_analysis(derived.years[1].CalculatedData,
                                           Len(derived.years), Min(2, years)))

\* calculate_metrics_flexible(annual_data, prices, analysis_years)
calculate_metrics_flexible(data, dict, years, now) ==
    IF data = <<>> THEN EmptyMetrics
    ELSE Validated(MetricsFrom(SelectYears(data, 1, <<>>, years, now), dict), years)

----------------------------------------------------------------------------
(* Metrics derivation as a program: the caller hands an annual timeline (as *)
(* extract_annual_data returns it: distinct CurFYEn strings, descending), a *)
(* price dictionary and a window size to calculate_metrics_flexible         *)

\* the longest timeline and the largest analysis_years
MaxYears == 2

CalcFyEnds == <<Dashed(2024, 3, 31), Dashed(2023, 3, 31), Compact(2022, 3, 31)>>

AvgShValues == {Null, Num(0), Num(500000), Num(1000000)}

\* (NP, OP, Eq, CFO) quadruples
ProfitValues ==
    {<<Num(50000000), Num(80000000), Num(0), Num(40000000)>>,
     <<Num(50000000), Num(0), Num(400000000), Num(40000000)>>,
     <<Null, Null, Null, Null>>,
     <<Num(50000000), Num(80000000), Null, Num(40000000)>>,
     <<Num(-30000000), Num(-10000000), Num(-5000000), Num(-1000000)>>}

YearRecord(fy, avg_sh, per_share, profit) ==
    [RawRecord("FY", fy, Dashed(2024, 2, 10), Num(100), profit[3], per_share[1])
        EXCEPT !.BPS = per_share[2], !.AvgSh = avg_sh,
               !.NP = profit[1], !.OP = profit[2], !.CFO = profit[4]]

\* the records a timeline may hold for one fiscal year end
YearRecords(fy) ==
    {YearRecord(fy, avg_sh, per_share,
                <<Num(50000000), Num(80000000), Num(400000000), Num(40000000)>>) :
        avg_sh \in AvgShValues, per_share \in {<<Null, Null>>, <<Num(200), Num(1000)>>}}
    \cup {YearRecord(fy, avg_sh, per_share,
                <<Num(50000000), Num(80000000), Num(400000000), Num(40000000)>>) :
        avg_sh \in {Num(500000), Num(1000000)},
        per_share \in {<<Num(0), Num(-10)>>, <<Num(-50), Num(0)>>}}
    \cup {YearRecord(fy, Num(1000000), <<Num(200), Num(1000)>>, profit) :
        profit \in ProfitValues}
    \cup {YearRecord(fy, Num(1000000), <<Null, Null>>, <<Null, Null, Null, Null>>),
          [YearRecord(fy, Num(1000000), <<Null, Null>>,
                      <<Null, Null, Null, Num(40000000)>>)
              EXCEPT !.CFI = Num(-10000000)]}

\* the timelines over the fiscal year ends from position k on, at most n long
RECURSIVE Timelines(_, _)
Timelines(k, n) ==
    IF k > Len(CalcFyEnds) \/ n = 0 THEN {<<>>}
    ELSE Timelines(k + 1, n)
         \cup {<<r>> \o rest : r \in YearRecords(CalcFyEnds[k]),
                               rest \in Timelines(k + 1, n - 1)}

\* the price dictionaries for a timeline: none, a close under each CurFYEn
\* as given, a close under each CurFYEn without dashes, a close of 0
PriceDicts(data) ==
    {<<>>,
     [key \in {data[i].CurFYEn : i \in 1..Len(data)} |-> Float(1500, 1)],
     [key \in {RemoveDashes(data[i].CurFYEn) : i \in 1..Len(data)} |-> Float(1500, 1)],
     [key \in {data[i].CurFYEn : i \in 1..Len(data)} |-> Float(0, 1)]}

ReconIdle ==
    /\ quarterly_data = <<>>
    /\ variant = "none"
    /\ calls = 0
    /\ result1 = NoResult
    /\ result2 = NoResult

InitCalc ==
    /\ annual_data \in Timelines(1, MaxYears)
    /\ prices \in PriceDicts(annual_data)
    /\ analysis_years \in 0..MaxYears
    /\ today \in Clocks
    /\ metrics = NoMetrics
    /\ ReconIdle
    /\ PriceIdle
    /\ AnalyzeIdle
    /\ CacheIdle
    /\ OtherIdle

\* analyzer.py line 168: calculate_metrics_flexible(annual_data, prices,
\* analysis_years)
CallCalculateMetrics ==
    /\ ~metrics.called
    /\ metrics' = calculate_metrics_flexible(annual_data, prices, analysis_years, today)
    /\ UNCHANGED <<annual_data, prices, analysis_years, today>>
    /\ UNCHANGED notCalc

NextCalc == CallCalculateMetrics

SpecCalc == InitCalc /\ [][NextCalc]_vars

----------------------------------------------------------------------------
(* Price alignment (mebuki/api/jquants_client.py, get_prices_at_dates).  A  *)
(* daily bar is [Date, AdjC, C]; a close is a float or None.                *)

\* YYYYMMDD as YYYY-MM-DD (lines 342-343, 356)
WithDashes(s) ==
    Slice(s, 0, 4) \o <<DashChar>> \o Slice(s, 4, 6) \o <<DashChar>> \o Slice(s, 6, 8)

\* "-" in date_str
HasDash(s) == \E i \in 1..Len(s) : s[i] = DashChar

\* lines 306-310: the datetime of a requested date
RequestDate(date_str) ==
    IF HasDash(date_str) THEN StrptimeDashed(Slice(date_str, 0, 10))
    ELSE StrptimeCompact(Slice(date_str, 0, 8))

\* lines 353-356: normalized_date
NormalizedDate(date_str) ==
    IF HasDash(date_str) THEN Slice(date_str, 0, 10) ELSE WithDashes(date_str)

\* lines 341-345: normalized_bar_date
NormalizedBarDate(bar_date) ==
    IF Len(bar_date) = 8 THEN WithDashes(bar_date) ELSE Slice(bar_date, 0, 10)

\* line 347: bar.get("AdjC") or bar.get("C")
BarPrice(bar) == IF Truthy(bar.AdjC) THEN bar.AdjC ELSE bar.C

\* lines 337-349: bars_by_date; a later bar overwrites an earlier one
BarsByDate(bars) ==
    [key \in {bars[i].Date : i \in {j \in 1..Len(bars) :
                  bars[j].Date # <<>> /\ BarPrice(bars[j]) # Null}}
         \cup {NormalizedBarDate(bars[i].Date) : i \in {j \in 1..Len(bars) :
                  bars[j].Date # <<>> /\ BarPrice(bars[j]) # Null}}
     |-> BarPrice(bars[CHOOSE i \in 1..Len(bars) :
             /\ bars[i].Date # <<>> /\ BarPrice(bars[i]) # Null
             /\ key \in {bars[i].Date, NormalizedBarDate(bars[i].Date)}
             /\ \A j \in (i + 1)..Len(bars) :
                    \/ bars[j].Date = <<>> \/ BarPrice(bars[j]) = Null
                    \/ key \notin {bars[j].Date, NormalizedBarDate(bars[j].Date)}])]

\* date_obj - timedelta(days=1)
PrevDay(date) ==
    IF date.d > 1 THEN [date EXCEPT !.d = @ - 1]
    ELSE IF date.m > 1
    THEN [date EXCEPT !.m = @ - 1, !.d = DaysInMonth(date.y, date.m - 1)]
    ELSE [date EXCEPT !.y = @ - 1, !.m = 12, !.d = 31]

\* range(1, 11): the walk goes back 10 days at most
WalkBackDays == 10

\* lines 362-369, from day i of the walk on; date is date_obj - (i - 1) days
RECURSIVE WalkBack(_, _, _)
WalkBack(by_date, date, i) ==
    IF i > WalkBackDays THEN Null
    ELSE IF DictGet(by_date, Dashed(PrevDay(date).y, PrevDay(date).m, PrevDay(date).d))
                # Null
    THEN DictGet(by_date, Dashed(PrevDay(date).y, PrevDay(date).m, PrevDay(date).d))
    ELSE WalkBack(by_date, PrevDay(date), i + 1)

\* a variant of PriceOnOrBefore that looks at the requested day only
PriceOnDayOnly(by_date, date_str) ==
    IF Truthy(DictGet(by_date, NormalizedDate(date_str)))
    THEN DictGet(by_date, NormalizedDate(date_str))
    ELSE DictGet(by_date, date_str)

\* lines 359-369 with use_nearest_trading_day: the price for a requested date
PriceOnOrBefore(by_date, date_str) ==
    IF Truthy(DictGet(by_date, NormalizedDate(date_str)))
    THEN DictGet(by_date, NormalizedDate(date_str))
    ELSE IF DictGet(by_date, date_str) # Null THEN DictGet(by_date, date_str)
    ELSE WalkBack(by_date, RequestDate(date_str), 1)

\* lines 305-314: the requested dates that parse
ParsedDates(date_list) ==
    {date_list[i] : i \in {j \in 1..Len(date_list) : RequestDate(date_list[j]).ok}}

\* lines 351-372: results of the batch, under date_str and normalized_date
BatchResults(by_date, date_list) ==
    [key \in ParsedDates(date_list)
              \cup {NormalizedDate(s) : s \in ParsedDates(date_list)}
     |-> PriceOnOrBefore(by_date,
             CHOOSE s \in ParsedDates(date_list) :
                 /\ key \in {s, NormalizedDate(s)}
                 /\ \A k \in 1..Len(date_list) :
                        (date_list[k] \in ParsedDates(date_list)
                         /\ key \in {date_list[k], NormalizedDate(date_list[k])})
                        => \E j \in k..Len(date_list) : date_list[j] = s)]

\* lines 374-378, get_price_at_date (lines 404-406): after a failed bulk
\* fetch each date is fetched on its own, and stored under date_str only
FallbackResults(by_date, date_list) ==
    [key \in {date_list[i] : i \in 1..Len(date_list)} |->
        IF RequestDate(key).ok THEN BatchResults(by_date, <<key>>)[key] ELSE Null]

\* get_prices_at_dates(code, dates); failed: the bulk fetch of the bars
\* raised once and the fetches after it succeeded
get_prices_at_dates(date_list, bars, failed) ==
    IF date_list = <<>> \/ ParsedDates(date_list) = {} THEN <<>>
    ELSE IF failed THEN FallbackResults(BarsByDate(bars), date_list)
    ELSE BatchResults(BarsByDate(bars), date_list)

----------------------------------------------------------------------------
(* Price alignment as a program: the price source holds daily bars and the  *)
(* caller asks get_prices_at_dates for a list of dates                      *)

\* the longest list of requested dates
MaxDates == 2

RequestDates == {Dashed(2024, 3, 5), Compact(2024, 3, 5), Dashed(2024, 3, 6)}

\* the days the source may hold a bar for, oldest first: 11 and 10 days
\* before 2024-03-05, the day before it, and the day itself
BarDays ==
    <<[y |-> 2024, m |-> 2, d |-> 23], [y |-> 2024, m |-> 2, d |-> 24],
      [y |-> 2024, m |-> 3, d |-> 4], [y |-> 2024, m |-> 3, d |-> 5]>>

\* what the source holds for day k: no bar, or a bar with an adjusted close,
\* in either date format, with an unadjusted close only, or without a close
BarChoices(k) ==
    {<<>>,
     <<[Date |-> Dashed(BarDays[k].y, BarDays[k].m, BarDays[k].d),
        AdjC |-> Float(100 + k, 1), C |-> Float(200 + k, 1)]>>,
     <<[Date |-> Compact(BarDays[k].y, BarDays[k].m, BarDays[k].d),
        AdjC |-> Float(100 + k, 1), C |-> Float(200 + k, 1)]>>,
     <<[Date |-> Dashed(BarDays[k].y, BarDays[k].m, BarDays[k].d),
        AdjC |-> Null, C |-> Float(200 + k, 1)]>>,
     <<[Date |-> Dashed(BarDays[k].y, BarDays[k].m, BarDays[k].d),
        AdjC |-> Null, C |-> Null]>>}

\* the bar lists of the source, in date order, from day k on
RECURSIVE BarLists(_)
BarLists(k) ==
    IF k > Len(BarDays) THEN {<<>>}
    ELSE {bar \o rest : bar \in BarChoices(k), rest \in BarLists(k + 1)}

InitPrice ==
    /\ all_bars \in BarLists(1)
    /\ dates \in UNION {[1..n -> RequestDates] : n \in 1..MaxDates}
    /\ bars_failed \in BOOLEAN
    /\ batch_raised = FALSE
    /\ price_results = NoPrices
    /\ today = [y |-> 2024, m |-> 3, d |-> 15]
    /\ ReconIdle
    /\ CalcIdle
    /\ AnalyzeIdle
    /\ CacheIdle
    /\ OtherIdle

\* analyzer.py line 141: api_client.get_prices_at_dates(code, dates_to_fetch)
CallGetPricesAtDates ==
    /\ ~price_results.called
    /\ dates # <<>>
    /\ price_results' = [called |-> TRUE,
                         results |-> get_prices_at_dates(dates, all_bars, bars_failed)]
    /\ UNCHANGED <<all_bars, dates, bars_failed, batch_raised>>
    /\ UNCHANGED notPrice

NextPrice == CallGetPricesAtDates

SpecPrice == InitPrice /\ [][NextPrice]_vars

----------------------------------------------------------------------------
(* Analysis orchestration and its cache (backend/services/analyzer.py,      *)
(* mebuki/utils/cache.py).  One call of analyze_stock or                     *)
(* analyze_stock_stream for one instrument.  A result or snapshot is         *)
(* [status, message, content, filings]: content stands for the identity and  *)
(* metrics fields, filings for the number of reports in edinet_data; a key   *)
(* that the dictionary lacks is "unset".  Messages are named by what they    *)
(* say.                                                                      *)

\* the freshness window of cache.get, in days
RetentionDays == 7

\* the oldest entry the cache may hold, in days
MaxAge == 8

\* the most reports the filing search delivers
MaxReports == 2

Snapshot(status, message, content, filings) ==
    [status |-> status, message |-> message, content |-> content, filings |-> filings]

\* a cache file that open(cache_file, "wb") has created and pickle.dump has
\* not filled (cache.py lines 123-124)
EmptyFile == [t |-> "empty file"]

\* a cache file whose bytes are no pickle
GarbageFile == [t |-> "garbage file"]

\* pickle.load raises EOFError on a file that ends early; the exception is
\* a value that the caller passes on
EOFError == [t |-> "EOFError"]

\* cache.py lines 102-106: pickle.load(f), where UnpicklingError and IOError
\* give None
pickle_load(file) ==
    IF file = GarbageFile THEN Null
    ELSE IF file = EmptyFile THEN EOFError
    ELSE file

\* cache.py lines 65-106: CacheManager.get(key, skip_date_check)
cache_get(manager, entry, skip_date_check) ==
    IF ~manager.enabled THEN Null
    ELSE IF ~entry.present THEN Null
    ELSE IF ~skip_date_check /\ entry.dated /\ entry.age >= RetentionDays THEN Null
    ELSE pickle_load(entry.value)

\* CacheManager.get(key), as the analyzer calls it
CacheGet(manager, entry) == cache_get(manager, entry, FALSE)

\* cache.py lines 108-133: CacheManager.set(key, value)
CacheSet(manager, entry, value) ==
    IF ~manager.enabled THEN entry
    ELSE [present |-> TRUE, value |-> value, dated |-> TRUE, age |-> 0]

\* a variant of CacheSetRaised in which a set that raises has written nothing
CacheSetRaisedUntouched(entry, value) == {entry}

\* cache.py lines 122-133, a set that raises: open(cache_file, "wb") has
\* emptied the file when pickle.dump raises something else than
\* PicklingError and IOError, and the file holds the value when
\* _load_metadata or _save_metadata raises; the date is the one from before
CacheSetRaised(entry, value) ==
    {[entry EXCEPT !.present = TRUE, !.value = EmptyFile],
     [entry EXCEPT !.present = TRUE, !.value = value]}

\* a variant of CachedResult that never finds an entry
CachedResultNever(manager, entry) == Null

\* analyzer.py lines 199-200, 359-360: the cached result the call sees
CachedResult(manager, entry) ==
    IF manager.use_cache /\ manager.cache THEN CacheGet(manager, entry) ELSE Null

\* lines 200-206 and 359-362: a cached result ends the call; the stream
\* sets its status and its message, which then says that the analysis is
\* complete and comes from the cache
ReturnCached ==
    /\ pc = "start"
    /\ CachedResult(analyzer, cache_entry) # Null
    /\ outputs' =
           IF mode = "analyze_stock" THEN <<CachedResult(analyzer, cache_entry)>>
           ELSE <<[CachedResult(analyzer, cache_entry) EXCEPT
                      !.status = "complete", !.message = "complete (cache)"]>>
    /\ pc' = "done"
    /\ UNCHANGED <<mode, analyzer, cache_entry, result, source_calls>>
    /\ UNCHANGED notAnalyze

\* lines 208-213, 318-322: without a cached result the stream yields the
\* initial result and the pipeline starts
BeginAnalysis ==
    /\ pc = "start"
    /\ CachedResult(analyzer, cache_entry) = Null
    /\ result' = Snapshot("initializing", "fetching instrument data", "none", 0)
    /\ outputs' = IF mode = "analyze_stock" THEN <<>> ELSE <<result'>>
    /\ pc' = "financial"
    /\ UNCHANGED <<mode, analyzer, cache_entry, source_calls>>
    /\ UNCHANGED notAnalyze

\* the call ends without a result: analyze_stock returns None, the stream
\* yields an error snapshot
Failed(message) ==
    /\ outputs' = IF mode = "analyze_stock" THEN <<Null>>
                  ELSE Append(outputs, Snapshot("error", message, "unset", 0))
    /\ pc' = "done"

\* _fetch_financial_data (lines 79-108) and the first derivation (lines
\* 219-244): the master lookup, then the financial summary, then the
\* timeline; the stream yields the metrics without prices if there are any
FetchFinancial ==
    /\ pc = "financial"
    /\ \E master_found \in BOOLEAN, annual_found \in BOOLEAN, metrics_found \in BOOLEAN :
        /\ source_calls' = [source_calls EXCEPT
               !.master = @ + 1,
               !.summary = IF master_found THEN @ + 1 ELSE @]
        /\ IF master_found /\ annual_found
           THEN /\ result' = IF mode = "analyze_stock" \/ ~metrics_found THEN result
                             ELSE Snapshot("fetching_prices", "fetching prices and filings",
                                           "metrics", result.filings)
                /\ outputs' = IF mode = "analyze_stock" \/ ~metrics_found THEN outputs
                              ELSE Append(outputs, result')
                /\ pc' = "prices"
           ELSE /\ Failed("financial data not available")
                /\ UNCHANGED result
    /\ UNCHANGED <<mode, analyzer, cache_entry>>
    /\ UNCHANGED notAnalyze

\* _fetch_prices and the derivation with prices (lines 249-271, 375-389):
\* one bulk fetch of the daily bars if a period end is in the subscription;
\* without metrics the call fails
FetchPrices ==
    /\ pc = "prices"
    /\ \E fetched \in 0..1 : source_calls' = [source_calls EXCEPT !.bars = @ + fetched]
    /\ \E metrics_found \in BOOLEAN :
        IF metrics_found
        THEN /\ result' = IF mode = "analyze_stock"
                          THEN Snapshot("unset", "unset", "metrics with prices", 0)
                          ELSE Snapshot("fetching_edinet", "fetching filings",
                                        "metrics with prices", result.filings)
             /\ outputs' = IF mode = "analyze_stock" THEN outputs
                           ELSE outputs \o <<result', result'>>
             /\ pc' = "filings"
        ELSE /\ Failed("metrics with prices not available")
             /\ UNCHANGED result
    /\ UNCHANGED <<mode, analyzer, cache_entry>>
    /\ UNCHANGED notAnalyze

\* the filing task of the stream (edinet_flow, lines 287-312), started before
\* the prices are fetched: a report is added to edinet_data and a copy of
\* the result is yielded
FilingReport ==
    /\ mode = "analyze_stock_stream"
    /\ pc \in {"prices", "filings"}
    /\ result.filings < MaxReports
    /\ source_calls' = [source_calls EXCEPT !.filings = @ + 1]
    /\ result' = [result EXCEPT !.filings = @ + 1]
    /\ outputs' = Append(outputs, result')
    /\ UNCHANGED <<mode, analyzer, cache_entry, pc>>
    /\ UNCHANGED notAnalyze

\* the end of the pipeline (lines 273-280, 391-399): analyze_stock looks up
\* the master and the filings if it has a filings client, then the result is
\* cached and handed out
Finish ==
    /\ pc = "filings"
    /\ \E edinet_client \in BOOLEAN, reports \in 0..MaxReports :
        /\ result' = IF mode = "analyze_stock"
                     THEN [result EXCEPT !.filings = IF edinet_client THEN reports ELSE 0]
                     ELSE [result EXCEPT !.status = "complete", !.message = "complete"]
        /\ source_calls' = IF mode = "analyze_stock" /\ edinet_client
                           THEN [source_calls EXCEPT !.master = @ + 1, !.filings = @ + 1]
                           ELSE source_calls
    /\ cache_entry' = IF analyzer.cache THEN CacheSet(analyzer, cache_entry, result')
                      ELSE cache_entry
    /\ outputs' = Append(outputs, result')
    /\ pc' = "done"
    /\ UNCHANGED <<mode, analyzer>>
    /\ UNCHANGED notAnalyze

\* what an earlier analysis may have stored: a result of analyze_stock or
\* the complete result of a stream
StoredResults ==
    {Snapshot("unset", "unset", "stored", 1), Snapshot("complete", "complete", "stored", 1)}

CacheEntries ==
    {NoEntry}
    \cup {[present |-> TRUE, value |-> value, dated |-> dated, age |-> age] :
             value \in StoredResults, dated \in BOOLEAN, age \in 0..MaxAge}

\* __init__ (lines 49-55): a cache manager exists unless use_cache is off
\* and none was passed in
Analyzers ==
    {manager \in [use_cache : BOOLEAN, cache : BOOLEAN, enabled : BOOLEAN] :
        manager.use_cache => manager.cache}

InitAnalyze ==
    /\ mode \in {"analyze_stock", "analyze_stock_stream"}
    /\ analyzer \in Analyzers
    /\ cache_entry \in CacheEntries
    /\ pc = "start"
    /\ result = Null
    /\ outputs = <<>>
    /\ source_calls = ZeroCalls
    /\ StreamIdle
    /\ CacheIdle
    /\ OtherIdle
    /\ today = [y |-> 2024, m |-> 3, d |-> 15]
    /\ ReconIdle
    /\ CalcIdle
    /\ PriceIdle

NextAnalyze ==
    \/ ReturnCached
    \/ BeginAnalysis
    \/ FetchFinancial
    \/ FetchPrices
    \/ FilingReport
    \/ Finish

SpecAnalyze == InitAnalyze /\ [][NextAnalyze]_vars

----------------------------------------------------------------------------
(* What the claims speak of: calendar dates denoted by the strings *)

SameDay(a, b) == a.y = b.y /\ a.m = b.m /\ a.d = b.d

\* the timeline the first call returned
Timeline == result1.value

Returned == calls >= 1 /\ ~result1.raised

\* the valid FullYear records of the input that share the period end fy_end
GroupOf(fy_end) ==
    {j \in KeptIndices(quarterly_data, FALSE, today) :
        quarterly_data[j].CurFYEn = fy_end}

\* record j was disclosed no later than record k (no date: before any date)
DisclosedNoLater(j, k) ==
    LET a == quarterly_data[j].DiscDate
        b == quarterly_data[k].DiscDate
    IN  a = <<>> \/ (b # <<>> /\ ~DayAfter(DateOf(a), DateOf(b)))

\* the list without its i-th record
RemoveAt(records, i) ==
    SubSeq(records, 1, i - 1) \o SubSeq(records, i + 1, Len(records))

----------------------------------------------------------------------------
(* Claims on annual reconciliation, checked under SpecAnnual *)

C2_UniquePeriodDate ==
    Returned =>
        \A i, j \in 1..Len(Timeline) :
            i # j => ~SameDay(DateOf(Timeline[i].CurFYEn), DateOf(Timeline[j].CurFYEn))

C5_StrictlyDescending ==
    Returned =>
        \A i \in 1..(Len(Timeline) - 1) :
            DayAfter(DateOf(Timeline[i].CurFYEn), DateOf(Timeline[i + 1].CurFYEn))

----------------------------------------------------------------------------
(* Claims on repeated reconciliation, checked under SpecRecon *)

\* C6: idempotence. Two calls in a row of reconciliation (annual or quarter
\* variant) on the same raw-record list with the same clock return lists equal
\* in length, order and every field value.
C6_Idempotent == calls = 2 => result1 = result2

\* C6 witness: the quarter variant was called twice on a list to which the
\* first call appended a synthesized 4Q record, and returned a merged 4Q entry
C6_Witness ==
    /\ calls = 2
    /\ variant = "quarterly"
    /\ Len(quarterly_data) > MaxRecs
    /\ \E i \in 1..Len(result2.value) :
        /\ result2.value[i].CurPerType = "4Q"
        /\ result2.value[i].Sales = Num(200)

----------------------------------------------------------------------------
(* Claims on the metrics derivation, checked under SpecCalc *)

\* the derivation returned a non-empty result
Derived == metrics.called /\ ~metrics.empty /\ ~metrics.raised

\* the record of the timeline that entry i of the result was derived from
InputOf(i) ==
    annual_data[CHOOSE j \in 1..Len(annual_data) :
                    annual_data[j].CurFYEn = metrics.years[i].fy_end]

IsNum(value) == value.t = "num"

\* the adjusted value of a raw per-share value when no ratio applies
Unadjusted(value) == IF IsNum(value) THEN Float(value.v, 1) ELSE Null

\* C7 as stated: with B the AvgSh of the most recent period of the window and
\* P the AvgSh of a period, both present and B > 0, the adjustment ratio is
\* B / P and the adjusted EPS is EPS * B / P; otherwise the ratio is null and
\* the adjusted EPS is the raw EPS.
C7_RatioBaselineOverPeriod ==
    Derived =>
        \A i \in 1..Len(metrics.years) :
            LET B == InputOf(1).AvgSh
                P == InputOf(i).AvgSh
                eps == InputOf(i).EPS
                calc == metrics.years[i].CalculatedData
            IN  IF IsNum(B) /\ IsNum(P) /\ B.v > 0
                THEN /\ calc.AdjustmentRatio # Null
                     /\ calc.AdjustmentRatio.n * P.v = calc.AdjustmentRatio.d * B.v
                     /\ IF IsNum(eps)
                        THEN /\ calc.AdjustedEPS # Null
                             /\ calc.AdjustedEPS.n * P.v
                                    = calc.AdjustedEPS.d * eps.v * B.v
                        ELSE calc.AdjustedEPS = Null
                ELSE /\ calc.AdjustmentRatio = Null
                     /\ calc.AdjustedEPS = Unadjusted(eps)

\* C7, amended: with B the AvgSh of the most recent period of the window and
\* P the AvgSh of a period, both present and B > 0, the adjustment ratio is
\* P / B and the adjusted EPS is EPS * P / B; when either is missing or
\* B <= 0 the ratio is null and the adjusted EPS is the raw EPS.
C7_RatioPeriodOverBaseline ==
    Derived =>
        \A i \in 1..Len(metrics.years) :
            LET B == InputOf(1).AvgSh
                P == InputOf(i).AvgSh
                eps == InputOf(i).EPS
                calc == metrics.years[i].CalculatedData
            IN  IF IsNum(B) /\ IsNum(P) /\ B.v > 0
                THEN /\ calc.AdjustmentRatio # Null
                     /\ calc.AdjustmentRatio.n * B.v = calc.AdjustmentRatio.d * P.v
                     /\ IF IsNum(eps)
                        THEN /\ calc.AdjustedEPS # Null
                             /\ calc.AdjustedEPS.n * B.v
                                    = calc.AdjustedEPS.d * eps.v * P.v
                        ELSE calc.AdjustedEPS = Null
                ELSE /\ calc.AdjustmentRatio = Null
                     /\ calc.AdjustedEPS = Unadjusted(eps)

\* a derived window whose baseline has 1,000,000 shares and which holds an
\* older period with 500,000 shares and an EPS of 200: ratio 1/2, adjusted
\* EPS 100; and a period without a share count whose EPS stays as it is
C7_Witness ==
    /\ Derived
    /\ Len(metrics.years) = 2
    /\ InputOf(1).AvgSh = Num(1000000)
    /\ InputOf(2).AvgSh = Num(500000)
    /\ InputOf(2).EPS = Num(200)
    /\ metrics.years[2].CalculatedData.AdjustmentRatio = Float(1, 2)
    /\ metrics.years[2].CalculatedData.AdjustedEPS = Float(100, 1)

\* C8: ROE and simple ROIC are null when equity is 0 or null, the CF
\* conversion rate is null when operating profit is 0 or null, PER (PBR) is
\* null when the adjusted EPS (BPS) is 0, negative or null even with a price;
\* a non-null PER or PBR is never negative; no step divides by zero.
C8_ZeroDivisionSafe ==
    metrics.called =>
        /\ ~metrics.raised
        /\ \A i \in 1..Len(metrics.years) :
            LET calc == metrics.years[i].CalculatedData
            IN  /\ ~is_valid_value(InputOf(i).Eq)
                       => calc.ROE = Null /\ calc.SimpleROIC = Null
                /\ ~is_valid_value(InputOf(i).OP) => calc.CFCVR = Null
                /\ (calc.AdjustedEPS = Null \/ calc.AdjustedEPS.n <= 0)
                       => calc.PER = Null
                /\ (calc.AdjustedBPS = Null \/ calc.AdjustedBPS.n <= 0)
                       => calc.PBR = Null
                /\ calc.PER # Null => calc.PER.n >= 0
                /\ calc.PBR # Null => calc.PBR.n >= 0

\* a derived window with a priced period whose equity is 0 and whose net
\* profit is present, and a priced period whose adjusted EPS is not positive
C8_Witness ==
    /\ Derived
    /\ \E i \in 1..Len(metrics.years) :
        /\ InputOf(i).Eq = Num(0)
        /\ IsNum(InputOf(i).NP)
        /\ metrics.years[i].CalculatedData.Price # Null
        /\ metrics.years[i].CalculatedData.ROE = Null
        /\ metrics.years[i].CalculatedData.PER # Null
    /\ \E i \in 1..Len(metrics.years) :
        /\ metrics.years[i].CalculatedData.Price # Null
        /\ metrics.years[i].CalculatedData.AdjustedEPS # Null
        /\ metrics.years[i].CalculatedData.AdjustedEPS.n <= 0
        /\ metrics.years[i].CalculatedData.PER = Null

----------------------------------------------------------------------------
(* Claims on price alignment, checked under SpecPrice *)

\* the days of year y before its month m
RECURSIVE DaysBeforeMonth(_, _)
DaysBeforeMonth(y, m) ==
    IF m = 1 THEN 0 ELSE DaysBeforeMonth(y, m - 1) + DaysInMonth(y, m - 1)

\* the ordinal of a date in the proleptic Gregorian calendar
DayNumber(date) ==
    365 * (date.y - 1) + ((date.y - 1) \div 4) - ((date.y - 1) \div 100)
    + ((date.y - 1) \div 400) + DaysBeforeMonth(date.y, date.m) + date.d

\* bar i of the source is dated within [d - 10 calendar days, d]
InWindow(i, d) ==
    /\ DayNumber(DateOf(all_bars[i].Date)) <= DayNumber(RequestDate(d))
    /\ DayNumber(DateOf(all_bars[i].Date)) >= DayNumber(RequestDate(d)) - 10

\* the latest bar of a non-empty set of bars
Latest(bar_set) ==
    CHOOSE i \in bar_set : \A j \in bar_set :
        DayNumber(DateOf(all_bars[j].Date)) <= DayNumber(DateOf(all_bars[i].Date))

----------------------------------------------------------------------------
(* The cache short-circuit *)

\* caching is on: the analyzer uses its cache and the cache is enabled
CachingOn == analyzer.use_cache /\ analyzer.cache /\ analyzer.enabled

\* the instrument's entry exists and its date is within the retention window
FreshEntry ==
    /\ cache_entry.present
    /\ cache_entry.dated
    /\ cache_entry.age < RetentionDays

----------------------------------------------------------------------------
(* The streaming analysis with its tasks (analyzer.py lines 195-353).  The   *)
(* generator (pc) checks the cache, creates the producer task main_flow,     *)
(* yields the initial result and then yields what it takes from the queue    *)
(* until a snapshot with status "complete" or "error" comes.  main_flow      *)
(* puts snapshots and creates the filing task edinet_flow, which puts a      *)
(* snapshot per report.  A put on the unbounded queue does not suspend.      *)

ErrorSnapshot(message) == Snapshot("error", message, "unset", 0)

\* a variant of Terminal for which an error snapshot does not end the stream
TerminalCompleteOnly(snapshot) == snapshot.status = "complete"

\* line 331: item.get("status") in ["complete", "error"]
Terminal(snapshot) == snapshot.status \in {"complete", "error"}

\* lines 200-206: the cache check, outside every try; lines 208-213 and
\* 318-322: the producer task is created and the initial result is yielded
StreamStart ==
    /\ pc = "start"
    /\ \E cached_result \in {CachedResult(analyzer, cache_entry)} :
        IF cached_result = EOFError
        THEN /\ pc' = "raised"
             /\ UNCHANGED <<result, outputs, main_task>>
        ELSE IF cached_result # Null
        THEN /\ outputs' = <<[cached_result EXCEPT
                                !.status = "complete", !.message = "complete (cache)"]>>
             /\ pc' = "done"
             /\ UNCHANGED <<result, main_task>>
        ELSE /\ result' = Snapshot("initializing", "fetching instrument data", "none", 0)
             /\ outputs' = <<result'>>
             /\ main_task' = "financial"
             /\ pc' = "loop"
    /\ UNCHANGED <<mode, analyzer, cache_entry, source_calls, queue, edinet_task>>
    /\ UNCHANGED notStream

\* main_flow puts an error snapshot and returns (lines 223-224, 264-265,
\* 282-284)
MainFails(message) ==
    /\ queue' = Append(queue, ErrorSnapshot(message))
    /\ main_task' = "done"

\* lines 221-254: the master lookup and the financial summary in a thread,
\* the first derivation, whose snapshot is put if there are metrics, and
\* the creation of the filing task
MainFinancial ==
    /\ main_task = "financial"
    /\ \E master \in {"found", "none", "raises"}, annual \in {"found", "none", "raises"},
          metrics_found \in BOOLEAN :
        /\ source_calls' = [source_calls EXCEPT
               !.master = @ + 1,
               !.summary = IF master = "found" THEN @ + 1 ELSE @]
        /\ IF master = "found" /\ annual = "found"
           THEN /\ result' = IF metrics_found
                             THEN Snapshot("fetching_prices", "fetching prices and filings",
                                           "metrics", result.filings)
                             ELSE [result EXCEPT !.content = "identity"]
                /\ queue' = IF metrics_found THEN Append(queue, result') ELSE queue
                /\ main_task' = "prices"
                /\ edinet_task' = "search"
           ELSE /\ MainFails(IF "raises" \in {master, annual} THEN "exception text"
                             ELSE "financial data not available")
                /\ UNCHANGED <<result, edinet_task>>
    /\ UNCHANGED <<mode, analyzer, cache_entry, pc, outputs>>
    /\ UNCHANGED notStream

\* lines 255-271: the prices in a thread and the second derivation; with
\* metrics the snapshot is put twice, without them main_flow fails and
\* leaves the filing task as it is
MainPrices ==
    /\ main_task = "prices"
    /\ \E fetched \in 0..1 : source_calls' = [source_calls EXCEPT !.bars = @ + fetched]
    /\ \E metrics_found \in BOOLEAN :
        IF metrics_found
        THEN /\ result' = Snapshot("fetching_edinet", "fetching filings",
                                   "metrics with prices", result.filings)
             /\ queue' = queue \o <<result', result'>>
             /\ main_task' = "await_edinet"
        ELSE /\ MainFails("metrics with prices not available")
             /\ UNCHANGED result
    /\ UNCHANGED <<mode, analyzer, cache_entry, pc, outputs, edinet_task>>
    /\ UNCHANGED notStream

\* lines 273-284: once the filing task has finished, the result is complete,
\* is stored in the cache and put; an exception of the cache write gives an
\* error snapshot, and leaves the file as the write left it
MainFinish ==
    /\ main_task = "await_edinet"
    /\ edinet_task = "done"
    /\ result' = [result EXCEPT !.status = "complete", !.message = "complete"]
    /\ \E written \in BOOLEAN :
        /\ ~written => analyzer.cache /\ analyzer.enabled
        /\ IF written
           THEN cache_entry' = IF analyzer.cache
                               THEN CacheSet(analyzer, cache_entry, result')
                               ELSE cache_entry
           ELSE cache_entry' \in CacheSetRaised(cache_entry, result')
        /\ queue' = Append(queue, IF written THEN result' ELSE ErrorSnapshot("exception text"))
    /\ main_task' = "done"
    /\ UNCHANGED <<mode, analyzer, pc, outputs, source_calls, edinet_task>>
    /\ UNCHANGED notStream

\* fetch_edinet_reports_stream, lines 414-441: without a filings client the
\* task ends at once; otherwise the master is looked up if the EDINET code
\* is not known, and the filings are searched in a thread
EdinetSearch ==
    /\ edinet_task = "search"
    /\ \E edinet_client \in BOOLEAN, lookup \in 0..1, found \in BOOLEAN :
        /\ source_calls' = IF edinet_client
                           THEN [source_calls EXCEPT !.master = @ + lookup, !.filings = @ + 1]
                           ELSE source_calls
        /\ edinet_task' = IF edinet_client /\ found THEN "download" ELSE "done"
    /\ UNCHANGED <<mode, analyzer, cache_entry, pc, result, outputs, queue, main_task>>
    /\ UNCHANGED notStream

\* a variant of EdinetReport in which the filing task also sets the status
EdinetReportSetsStatus ==
    /\ edinet_task = "download"
    /\ source_calls' = [source_calls EXCEPT !.filings = @ + 1]
    /\ \E downloaded \in BOOLEAN, last \in BOOLEAN :
        IF downloaded
        THEN /\ result' = [result EXCEPT !.filings = @ + 1, !.status = "fetching_edinet"]
             /\ queue' = Append(queue, result')
             /\ edinet_task' = IF last \/ result'.filings = MaxReports
                               THEN "done" ELSE "download"
        ELSE /\ edinet_task' = "done"
             /\ UNCHANGED <<result, queue>>
    /\ UNCHANGED <<mode, analyzer, cache_entry, pc, outputs, main_task>>
    /\ UNCHANGED notStream

\* lines 446-472 and edinet_flow, lines 289-315: a document is downloaded in
\* a thread, the report is added to the shared result and a copy of the
\* result is put; an exception ends the task
EdinetReport ==
    /\ edinet_task = "download"
    /\ source_calls' = [source_calls EXCEPT !.filings = @ + 1]
    /\ \E downloaded \in BOOLEAN, last \in BOOLEAN :
        IF downloaded
        THEN /\ result' = [result EXCEPT !.filings = @ + 1]
             /\ queue' = Append(queue, result')
             /\ edinet_task' = IF last \/ result'.filings = MaxReports
                               THEN "done" ELSE "download"
        ELSE /\ edinet_task' = "done"
             /\ UNCHANGED <<result, queue>>
    /\ UNCHANGED <<mode, analyzer, cache_entry, pc, outputs, main_task>>
    /\ UNCHANGED notStream

\* lines 325-342: the generator takes the next snapshot from the queue and
\* yields it, and stops after one with status "complete" or "error"; when
\* the wait times out it stops if main_flow has finished and the queue is
\* empty
Poll ==
    /\ pc = "loop"
    /\ IF queue # <<>>
       THEN /\ outputs' = Append(outputs, Head(queue))
            /\ queue' = Tail(queue)
            /\ pc' = IF Terminal(Head(queue)) THEN "done" ELSE "loop"
       ELSE /\ pc' = IF main_task \in {"done", "cancelled"} THEN "done" ELSE "loop"
            /\ UNCHANGED <<outputs, queue>>
    /\ UNCHANGED <<mode, analyzer, cache_entry, result, source_calls, main_task, edinet_task>>
    /\ UNCHANGED notStream

\* lines 343-353: the consumer closes the generator at a yield; main_flow is
\* cancelled unless it is done, and awaited.  The cancellation of a task
\* that awaits another task (line 273) cancels that task too.
Disconnect ==
    /\ pc = "loop"
    /\ pc' = "done"
    /\ main_task' = IF main_task = "done" THEN "done" ELSE "cancelled"
    /\ edinet_task' = IF main_task = "await_edinet" /\ edinet_task # "done"
                      THEN "cancelled" ELSE edinet_task
    /\ UNCHANGED <<mode, analyzer, cache_entry, result, outputs, source_calls, queue>>
    /\ UNCHANGED notStream

\* the entries the stream may find: none, a stored result just inside or
\* just outside the retention window, or a file that does not unpickle
StreamEntries ==
    {NoEntry}
    \cup {[present |-> TRUE, value |-> value, dated |-> TRUE, age |-> age] :
             value \in StoredResults \cup {EmptyFile, GarbageFile},
             age \in {RetentionDays - 1, RetentionDays}}

InitStream ==
    /\ mode = "analyze_stock_stream"
    /\ analyzer \in Analyzers
    /\ cache_entry \in StreamEntries
    /\ pc = "start"
    /\ result = Null
    /\ outputs = <<>>
    /\ source_calls = ZeroCalls
    /\ StreamIdle
    /\ CacheIdle
    /\ OtherIdle
    /\ today = [y |-> 2024, m |-> 3, d |-> 15]
    /\ ReconIdle
    /\ CalcIdle
    /\ PriceIdle

\* the steps of a stream whose consumer keeps reading
NextReading ==
    \/ StreamStart
    \/ MainFinancial
    \/ MainPrices
    \/ MainFinish
    \/ EdinetSearch
    \/ EdinetReport
    \/ Poll

NextStream ==
    \/ NextReading
    \/ Disconnect

SpecStream == InitStream /\ [][NextStream]_vars

\* the event loop runs every task that can run, every thread returns, and
\* the consumer asks for the next snapshot
SpecStreamLive ==
    /\ InitStream
    /\ [][NextReading]_vars
    /\ WF_vars(StreamStart)
    /\ WF_vars(MainFinancial)
    /\ WF_vars(MainPrices)
    /\ WF_vars(MainFinish)
    /\ WF_vars(EdinetSearch)
    /\ WF_vars(EdinetReport)
    /\ WF_vars(Poll)

----------------------------------------------------------------------------
(* The stream as its consumer sees it *)

\* the generator has returned or has raised
Stopped == pc \in {"done", "raised"}

\* a snapshot that ends the stream
Final(snapshot) == snapshot.status \in {"complete", "error"}

FinalYielded == {i \in 1..Len(outputs) : Final(outputs[i])}

\* C11: with every task scheduled, every upstream call returning and the
\* consumer reading on, the stream eventually stops; when it has stopped,
\* the last snapshot it yielded has status "complete" or "error" and exactly
\* one yielded snapshot has such a status; it has stopped without one only
\* if the producer task has finished and the queue is empty.
C11_StreamCompletion ==
    /\ <>Stopped
    /\ [](Stopped =>
             /\ outputs # <<>>
             /\ Final(outputs[Len(outputs)])
             /\ Cardinality(FinalYielded) = 1)
    /\ [](Stopped /\ FinalYielded = {} =>
             main_task \in {"done", "cancelled"} /\ queue = <<>>)

\* a task that can still take a step
Running(task) == task \notin {"none", "done", "cancelled"}

\* C12: whenever the stream has returned, neither the producer task nor the
\* filing task it created is still running.
C12_NoOrphanedTasks ==
    pc = "done" => ~Running(main_task) /\ ~Running(edinet_task)

\* the place of a status in the order of the analysis; "fetching_metrics"
\* is the second place, which no snapshot of the code carries
StatusRank(status) ==
    CASE status = "initializing" -> 0
      [] status = "fetching_metrics" -> 1
      [] status = "fetching_prices" -> 2
      [] status = "fetching_edinet" -> 3
      [] status = "complete" -> 4
      [] OTHER -> 5

\* C13: the statuses of the yielded snapshots never move backward in the
\* order initializing, fetching_metrics, fetching_prices, fetching_edinet,
\* complete, the snapshots of the filing task included; "error" follows
\* only a status that is not final, and nothing follows "complete" or
\* "error".
C13_StatusOrder ==
    \A i \in 1..Len(outputs) : \A j \in (i + 1)..Len(outputs) :
        /\ ~Final(outputs[i])
        /\ StatusRank(outputs[i].status) <= StatusRank(outputs[j].status)

\* a stream that yielded a snapshot of the filing task between the
\* producer's snapshots and ended with "complete", and one that ended
\* with "error" while the filing task had put another snapshot
C13_Witness ==
    \/ /\ pc = "done"
       /\ Len(outputs) >= 5
       /\ outputs[3].status = "fetching_prices"
       /\ outputs[3].filings = 1
       /\ outputs[Len(outputs)].status = "complete"
    \/ /\ pc = "done"
       /\ outputs[Len(outputs)].status = "error"
       /\ queue # <<>>

\* C14: no exception of a streaming analysis reaches the consumer raw: the
\* generator never raises.
C14_NeverRaises == pc # "raised"

----------------------------------------------------------------------------
(* The window of the derivation *)

\* the places in the input timeline of the periods of the result
RECURSIVE PlacesFrom(_, _)
PlacesFrom(i, k) ==
    IF i > Len(metrics.years) THEN TRUE
    ELSE \E p \in k..Len(annual_data) :
            /\ annual_data[p].CurFYEn = metrics.years[i].fy_end
            /\ PlacesFrom(i + 1, p + 1)

\* C15: the per-period list of calculate_metrics_flexible has at most
\* analysis_years entries, for every analysis_years >= 0; its periods stand
\* in the order of the input timeline, and no two of them have the same
\* period end date.
C15_WindowCap ==
    Derived =>
        /\ Len(metrics.years) <= analysis_years
        /\ PlacesFrom(1, 1)
        /\ \A i \in 1..Len(metrics.years) : \A j \in 1..Len(metrics.years) :
              i # j => DateOf(metrics.years[i].fy_end) # DateOf(metrics.years[j].fy_end)

----------------------------------------------------------------------------
(* Insufficient data *)

\* the periods of the timeline that the derivation uses
UsablePeriods == SelectYears(annual_data, 1, <<>>, analysis_years, today)

\* the latest period of the result has neither a free cash flow nor a
\* return on equity nor an adjusted EPS
KeyMetricsMissing ==
    /\ metrics.years[1].CalculatedData.CFC = Null
    /\ metrics.years[1].CalculatedData.ROE = Null
    /\ metrics.years[1].CalculatedData.AdjustedEPS = Null

----------------------------------------------------------------------------
(* The cache manager under concurrent use (cache.py).  The cache directory   *)
(* holds one .pkl file per key and one metadata.json with the date of each   *)
(* key; set and clear write the file first and then read, change and         *)
(* rewrite the whole metadata, with no lock.  Threads of the server share    *)
(* one manager.  The clock is read as a datetime and compared as a date:     *)
(* an instant is a day and a part of the day.                                *)

CacheKeys == {"individual_analysis_1111", "individual_analysis_2222"}

CacheThreads == {"a", "b"}

\* the instants at which something happens: the first day, and the last day
\* inside and the first day outside the retention window of a value stored
\* on the first day
Instants ==
    <<[day |-> 0, part |-> "am"],
      [day |-> RetentionDays - 1, part |-> "pm"],
      [day |-> RetentionDays, part |-> "am"]>>

\* metadata.json without the key
Undated == [dated |-> FALSE, day |-> 0]

IdleThread == [op |-> "idle", key |-> "none", metadata |-> <<>>]

NotStored == [present |-> FALSE, value |-> Null, at |-> [day |-> 0, part |-> "am"]]

NoGet == [called |-> FALSE]

\* what get sees of a key: the file, the date in the metadata and, from
\* date.today() (lines 90-96), the age of that date in days
EntryOf(dir, key, clock) ==
    [present |-> dir.file[key] # Null,
     value |-> dir.file[key],
     dated |-> dir.metadata[key].dated,
     age |-> clock.day - dir.metadata[key].day]

\* set, lines 119-128: the value is written to the file of the key
SetWrite(th, key, value) ==
    /\ cache_threads[th] = IdleThread
    /\ cache_dir' = [cache_dir EXCEPT !.file[key] = value]
    /\ cache_stored' = [cache_stored EXCEPT
                           ![key] = [present |-> TRUE, value |-> value, at |-> cache_clock]]
    /\ cache_threads' = [cache_threads EXCEPT
                            ![th] = [op |-> "set", key |-> key, metadata |-> <<>>]]
    /\ cache_got' = NoGet
    /\ UNCHANGED cache_clock
    /\ UNCHANGED notCache

\* clear(key), lines 142-145: the file of the key is removed
ClearUnlink(th, key) ==
    /\ cache_threads[th] = IdleThread
    /\ cache_dir' = [cache_dir EXCEPT !.file[key] = Null]
    /\ cache_stored' = [cache_stored EXCEPT ![key] = NotStored]
    /\ cache_threads' = [cache_threads EXCEPT
                            ![th] = [op |-> "clear", key |-> key, metadata |-> <<>>]]
    /\ cache_got' = NoGet
    /\ UNCHANGED cache_clock
    /\ UNCHANGED notCache

\* lines 131 and 148: metadata = self._load_metadata()
LoadMetadata(th) ==
    /\ cache_threads[th].op \in {"set", "clear"}
    /\ cache_threads' = [cache_threads EXCEPT
                            ![th] = [op |-> cache_threads[th].op \o " loaded",
                                     key |-> cache_threads[th].key,
                                     metadata |-> cache_dir.metadata]]
    /\ cache_got' = NoGet
    /\ UNCHANGED <<cache_dir, cache_clock, cache_stored>>
    /\ UNCHANGED notCache

\* lines 132-133: the key gets today's date and the metadata is saved;
\* lines 149-151: the key is deleted if it is there, and the metadata is saved
SaveMetadata(th) ==
    /\ cache_threads[th].op \in {"set loaded", "clear loaded"}
    /\ \E key \in {cache_threads[th].key}, metadata \in {cache_threads[th].metadata} :
        cache_dir' =
            IF cache_threads[th].op = "set loaded"
            THEN [cache_dir EXCEPT !.metadata =
                     [metadata EXCEPT ![key] = [dated |-> TRUE, day |-> cache_clock.day]]]
            ELSE IF metadata[key].dated
            THEN [cache_dir EXCEPT !.metadata = [metadata EXCEPT ![key] = Undated]]
            ELSE cache_dir
    /\ cache_threads' = [cache_threads EXCEPT ![th] = IdleThread]
    /\ cache_got' = NoGet
    /\ UNCHANGED <<cache_clock, cache_stored>>
    /\ UNCHANGED notCache

\* clear(), lines 154-155: every .pkl file is removed
ClearAllFiles(th) ==
    /\ cache_threads[th] = IdleThread
    /\ cache_dir' = [cache_dir EXCEPT !.file = [key \in CacheKeys |-> Null]]
    /\ cache_stored' = [key \in CacheKeys |-> NotStored]
    /\ cache_threads' = [cache_threads EXCEPT
                            ![th] = [op |-> "clear all", key |-> "none", metadata |-> <<>>]]
    /\ cache_got' = NoGet
    /\ UNCHANGED cache_clock
    /\ UNCHANGED notCache

\* clear(), lines 158-160: metadata.json is removed
ClearAllMetadata(th) ==
    /\ cache_threads[th].op = "clear all"
    /\ cache_dir' = [cache_dir EXCEPT !.metadata = [key \in CacheKeys |-> Undated]]
    /\ cache_threads' = [cache_threads EXCEPT ![th] = IdleThread]
    /\ cache_got' = NoGet
    /\ UNCHANGED <<cache_clock, cache_stored>>
    /\ UNCHANGED notCache

\* get(key, skip_date_check), lines 65-106, on the enabled manager
Get(key, skip_date_check) ==
    /\ cache_got' = [called |-> TRUE, key |-> key, skip_date_check |-> skip_date_check,
                     value |-> cache_get([enabled |-> TRUE],
                                         EntryOf(cache_dir, key, cache_clock),
                                         skip_date_check)]
    /\ UNCHANGED <<cache_dir, cache_clock, cache_threads, cache_stored>>
    /\ UNCHANGED notCache

\* time passes, to a later instant; a call takes no time on this scale, so
\* the clock moves between calls
Tick ==
    /\ \A th \in CacheThreads : cache_threads[th] = IdleThread
    /\ \E i \in 1..Len(Instants), j \in 1..Len(Instants) :
        /\ cache_clock = Instants[i]
        /\ i < j
        /\ cache_clock' = Instants[j]
    /\ cache_got' = NoGet
    /\ UNCHANGED <<cache_dir, cache_threads, cache_stored>>
    /\ UNCHANGED notCache

\* __init__, lines 23-36: an empty cache directory
InitCache ==
    /\ ReconIdle
    /\ CalcIdle
    /\ PriceIdle
    /\ AnalyzeIdle
    /\ OtherIdle
    /\ today = [y |-> 2024, m |-> 3, d |-> 15]
    /\ cache_dir = [file |-> [key \in CacheKeys |-> Null],
                    metadata |-> [key \in CacheKeys |-> Undated]]
    /\ cache_clock = Instants[1]
    /\ cache_threads = [th \in CacheThreads |-> IdleThread]
    /\ cache_stored = [key \in CacheKeys |-> NotStored]
    /\ cache_got = NoGet

NextCache ==
    \/ \E th \in CacheThreads, key \in CacheKeys, value \in StoredResults :
           SetWrite(th, key, value)
    \/ \E th \in CacheThreads, key \in CacheKeys : ClearUnlink(th, key)
    \/ \E th \in CacheThreads : LoadMetadata(th)
    \/ \E th \in CacheThreads : SaveMetadata(th)
    \/ \E th \in CacheThreads : ClearAllFiles(th)
    \/ \E th \in CacheThreads : ClearAllMetadata(th)
    \/ \E key \in CacheKeys, skip_date_check \in BOOLEAN : Get(key, skip_date_check)
    \/ Tick

SpecCache == InitCache /\ [][NextCache]_vars

\* C17: on an enabled manager, whatever set, clear and get calls have run to
\* their end before and however they interleaved, get(key) with the freshness check returns
\* absent for a value stored 7 or more days ago and the stored value for one
\* stored less than 7 days ago, and get(key) with the check skipped returns
\* the stored value whatever its age.  Ages are counted in calendar days, as
\* the manager counts them.
C17_CacheRetention ==
    (cache_got.called /\ \A th \in CacheThreads : cache_threads[th] = IdleThread) =>
        \E stored \in {cache_stored[cache_got.key]} :
            stored.present =>
                IF ~cache_got.skip_date_check
                   /\ cache_clock.day - stored.at.day >= RetentionDays
                THEN cache_got.value = Null
                ELSE cache_got.value = stored.value

----------------------------------------------------------------------------
\* C18: the raw records are immutable once fetched: a call of the annual or
\* of the quarter reconciliation leaves the caller's list of raw records as
\* it was, with no record added and no field of a record added or changed.
C18_RawRecordsUnchanged == [][quarterly_data' = quarterly_data]_vars

----------------------------------------------------------------------------
\* C19: the validity filter is enforced.  Every entry of the reconciled
\* annual timeline passes is_valid_financial_record, and so does every raw
\* record that the filter let through for the entry's period end, whatever
\* the format of the period end: a record with no valid sales, operating
\* profit, net profit or equity that lacks the period end or the disclosure
\* date is not in the output.
C19_ValidityFilter ==
    (calls >= 1 /\ variant = "annual" /\ ~result1.raised) =>
        \A i \in 1..Len(result1.value) :
            /\ is_valid_financial_record(result1.value[i])
            /\ \A j \in GroupOf(result1.value[i].CurFYEn) :
                   is_valid_financial_record(quarterly_data[j])

----------------------------------------------------------------------------
(* The analyzer's price step (analyzer.py, _fetch_prices) followed by the    *)
(* second derivation: the period ends of the window are formatted, asked of  *)
(* get_prices_at_dates in one batch, and on an exception of the batch asked  *)
(* one by one of get_price_at_date.                                          *)

\* line 118: the first day the price subscription covers
SubscriptionStart == [y |-> 2021, m |-> 1, d |-> 9]

\* lines 124-127: fy_end_formatted
FormattedFyEnd(fy_end) ==
    IF Len(fy_end) = 8 THEN WithDashes(fy_end)
    ELSE IF Len(fy_end) >= 10 THEN Slice(fy_end, 0, 10) ELSE fy_end

\* line 130: the datetime of fy_end
FyEndDate(fy_end) ==
    IF Len(fy_end) = 8 THEN StrptimeCompact(fy_end)
    ELSE StrptimeDashed(Slice(fy_end, 0, 10))

\* lines 121-136: the positions of the window whose date is asked for
FetchedPositions(data, years) ==
    {i \in 1..Min(years, Len(data)) :
        /\ data[i].CurFYEn # <<>>
        /\ FyEndDate(data[i].CurFYEn).ok
        /\ ~DayAfter(SubscriptionStart, FyEndDate(data[i].CurFYEn))}

\* dates_to_fetch, from position i on
RECURSIVE DatesToFetch(_, _, _)
DatesToFetch(data, years, i) ==
    IF i > Min(years, Len(data)) THEN <<>>
    ELSE (IF i \in FetchedPositions(data, years)
          THEN <<FormattedFyEnd(data[i].CurFYEn)>> ELSE <<>>)
         \o DatesToFetch(data, years, i + 1)

\* date_to_fy_end[date_str]: the period end of the last position with that
\* formatted date
DateToFyEnd(data, years, date_str) ==
    data[CHOOSE i \in FetchedPositions(data, years) :
            /\ FormattedFyEnd(data[i].CurFYEn) = date_str
            /\ \A j \in FetchedPositions(data, years) :
                   FormattedFyEnd(data[j].CurFYEn) = date_str => j <= i].CurFYEn

\* lines 141-147: the batch answered; each price goes under date_str and
\* under the period end as it came
BatchPrices(data, years, batch) ==
    [key \in {k \in DOMAIN batch : batch[k] # Null}
              \cup {DateToFyEnd(data, years, k) : k \in {d \in DOMAIN batch : batch[d] # Null}}
     |-> IF DictGet(batch, key) # Null THEN batch[key]
         ELSE batch[FormattedFyEnd(key)]]

\* lines 148-156: the batch raised; each date is asked of get_price_at_date
\* (jquants_client.py lines 404-406), which by then answers, and a price
\* that is there goes under date_str
IndividualPrices(date_list, bars) ==
    [key \in {date_list[i] : i \in {j \in 1..Len(date_list) :
                  Truthy(DictGet(get_prices_at_dates(<<date_list[j]>>, bars, FALSE),
                                 date_list[j]))}}
     |-> get_prices_at_dates(<<key>>, bars, FALSE)[key]]

\* _fetch_prices(code, annual_data, analysis_years)
fetch_prices(data, years, bars, failed, raised) ==
    IF DatesToFetch(data, years, 1) = <<>> THEN <<>>
    ELSE IF raised THEN IndividualPrices(DatesToFetch(data, years, 1), bars)
    ELSE BatchPrices(data, years,
                     get_prices_at_dates(DatesToFetch(data, years, 1), bars, failed))

\* the period ends of the window, newest first, each in either spelling
FetchFyEnds ==
    <<{Dashed(2024, 3, 31), Compact(2024, 3, 31)},
      {Dashed(2023, 3, 31), Compact(2023, 3, 31)}>>

FetchRecord(fy) ==
    YearRecord(fy, Num(1000000), <<Num(200), Num(1000)>>,
               <<Num(50000000), Num(80000000), Num(400000000), Num(40000000)>>)

FetchTimelines ==
    {<<FetchRecord(a)>> : a \in FetchFyEnds[1]}
    \cup {<<FetchRecord(a), FetchRecord(b)>> : a \in FetchFyEnds[1], b \in FetchFyEnds[2]}

\* the source holds a bar for 2023-03-31, a trading day, or not, and one for
\* 2024-03-29, the last trading day before 2024-03-31, or not
FetchBars ==
    {older \o newer :
        older \in {<<>>, <<[Date |-> Dashed(2023, 3, 31),
                           AdjC |-> Float(1200, 1), C |-> Float(1200, 1)]>>},
        newer \in {<<>>, <<[Date |-> Dashed(2024, 3, 29),
                           AdjC |-> Float(1500, 1), C |-> Float(1500, 1)]>>}}

InitFetch ==
    /\ annual_data \in FetchTimelines
    /\ prices = <<>>
    /\ analysis_years \in 1..MaxYears
    /\ metrics = NoMetrics
    /\ today = [y |-> 2024, m |-> 5, d |-> 15]
    /\ all_bars \in FetchBars
    /\ dates = <<>>
    /\ bars_failed \in BOOLEAN
    /\ batch_raised \in BOOLEAN
    /\ price_results = NoPrices
    /\ ReconIdle
    /\ AnalyzeIdle
    /\ CacheIdle
    /\ OtherIdle

\* analyzer.py lines 255 and 379: prices = self._fetch_prices(code,
\* annual_data, analysis_years)
FetchPricesStep ==
    /\ ~price_results.called
    /\ dates' = DatesToFetch(annual_data, analysis_years, 1)
    /\ prices' = fetch_prices(annual_data, analysis_years, all_bars, bars_failed,
                              batch_raised)
    /\ price_results' = [called |-> TRUE, raised |-> batch_raised]
    /\ UNCHANGED <<annual_data, analysis_years, metrics, all_bars, bars_failed,
                   batch_raised>>
    /\ UNCHANGED <<reconVars, analyzeVars, streamVars, cacheVars, otherVars>>

\* analyzer.py lines 256 and 380: the derivation with the prices fetched
CalculateWithPrices ==
    /\ price_results.called
    /\ CallCalculateMetrics

NextFetch ==
    \/ FetchPricesStep
    \/ CalculateWithPrices

SpecFetch == InitFetch /\ [][NextFetch]_vars

\* the close the source has for the period end at position i of the window:
\* the close of the latest bar on or before it
SourcePrice(i) ==
    PriceOnOrBefore(BarsByDate(all_bars), FormattedFyEnd(annual_data[i].CurFYEn))

\* C20: dual price keys.  For every period of the window whose price was
\* found, the price map that _fetch_prices returns holds that price under
\* the period end as it came and under its YYYY-MM-DD form, on the batch
\* path and on the individual fallback path, and the lookup of the metrics
\* engine by the period end finds it.
C20_DualPriceKeys ==
    price_results.called =>
        \A i \in 1..Min(analysis_years, Len(annual_data)) :
            Truthy(SourcePrice(i)) =>
                /\ DictGet(prices, annual_data[i].CurFYEn) = SourcePrice(i)
                /\ DictGet(prices, FormattedFyEnd(annual_data[i].CurFYEn)) = SourcePrice(i)
                /\ PriceFor(prices, annual_data[i].CurFYEn) = SourcePrice(i)

----------------------------------------------------------------------------
\* the list without the records whose period end makes the filter raise
WithoutMalformed(records) ==
    SelectIndices(records,
                  {i \in 1..Len(records) : FilterRecord(records[i], FALSE, today) # "raise"},
                  1)

\* C21: a malformed record is skipped and is not fatal.  Reconciliation of a
\* list that holds a record with a malformed period end does not raise and
\* returns the timeline built from the other records.
C21_MalformedSkipped ==
    (calls >= 1 /\ variant = "annual") =>
        /\ ~result1.raised
        /\ result1.value
              = extract_annual_data(WithoutMalformed(quarterly_data), FALSE, today).value

----------------------------------------------------------------------------
(* The degraded price path (jquants_client.py).  get_prices_at_dates asks    *)
(* the source for the bars once; when that raises, its except branch calls   *)
(* get_price_at_date for each date, and get_price_at_date calls              *)
(* get_prices_at_dates with that one date.  The calls in progress are a      *)
(* stack of frames [dates, at, results]: at = 0 before the request for the   *)
(* bars, at = i while the except branch is at the i-th date.                 *)

\* the depth of calls at which Python raises RecursionError
RecursionLimit == 5

Frame(date_list) == [dates |-> date_list, at |-> 0, results |-> <<>>]

\* results[key] = value
DictPut(dict, key, value) ==
    [k \in DOMAIN dict \cup {key} |-> IF k = key THEN value ELSE dict[k]]

\* the innermost call returns value: to get_price_at_date and the except
\* branch of its caller (lines 377-378, 404-406), or to the outside
ReturnValue(value) ==
    IF Len(frames) = 1
    THEN /\ frames' = <<>>
         /\ fallback_result' = [done |-> TRUE, raised |-> FALSE, results |-> value]
    ELSE /\ \E caller \in {frames[Len(frames) - 1]} :
             frames' = Append(SubSeq(frames, 1, Len(frames) - 2),
                              [caller EXCEPT
                                  !.results = DictPut(@, caller.dates[caller.at],
                                                     DictGet(value, caller.dates[caller.at])),
                                  !.at = @ + 1])
         /\ UNCHANGED fallback_result

\* lines 316-372: nothing to ask for, or the request for the bars; when the
\* source answers the results are computed and returned, when it raises
\* the except branch begins
RequestBars ==
    /\ frames # <<>>
    /\ frames[Len(frames)].at = 0
    /\ \E frame \in {frames[Len(frames)]} :
        IF ParsedDates(frame.dates) = {}
        THEN /\ ReturnValue(<<>>)
             /\ UNCHANGED bar_requests
        ELSE /\ bar_requests' = bar_requests + 1
             /\ IF outage = "always" \/ (outage = "once" /\ bar_requests = 0)
                THEN /\ frames' = [frames EXCEPT ![Len(frames)].at = 1]
                     /\ UNCHANGED fallback_result
                ELSE ReturnValue(BatchResults(BarsByDate(all_bars), frame.dates))
    /\ UNCHANGED outage
    /\ UNCHANGED notFallback

\* lines 377-378 and 404-405: the except branch calls get_price_at_date for
\* its next date, which calls get_prices_at_dates; at the depth limit the
\* call raises RecursionError, which is raised inside except branches all
\* the way out
CallIndividual ==
    /\ frames # <<>>
    /\ \E frame \in {frames[Len(frames)]} :
        /\ frame.at >= 1
        /\ frame.at <= Len(frame.dates)
        /\ IF Len(frames) < RecursionLimit
           THEN /\ frames' = Append(frames, Frame(<<frame.dates[frame.at]>>))
                /\ UNCHANGED fallback_result
           ELSE /\ frames' = <<>>
                /\ fallback_result' = [done |-> TRUE, raised |-> TRUE, results |-> <<>>]
    /\ UNCHANGED <<outage, bar_requests>>
    /\ UNCHANGED notFallback

\* line 381: the except branch has gone through its dates
ReturnResults ==
    /\ frames # <<>>
    /\ frames[Len(frames)].at > Len(frames[Len(frames)].dates)
    /\ ReturnValue(frames[Len(frames)].results)
    /\ UNCHANGED <<outage, bar_requests>>
    /\ UNCHANGED notFallback

\* get_prices_at_dates(code, dates) is called
InitFallback ==
    /\ all_bars \in BarLists(3)
    /\ dates \in UNION {[1..n -> RequestDates] : n \in 1..MaxDates}
    /\ bars_failed = FALSE
    /\ batch_raised = FALSE
    /\ price_results = NoPrices
    /\ frames = <<Frame(dates)>>
    /\ outage \in {"none", "once", "always"}
    /\ bar_requests = 0
    /\ fallback_result = NoOutcome
    /\ RetryIdle
    /\ today = [y |-> 2024, m |-> 3, d |-> 15]
    /\ ReconIdle
    /\ CalcIdle
    /\ AnalyzeIdle
    /\ CacheIdle

NextFallback ==
    \/ RequestBars
    \/ CallIndividual
    \/ ReturnResults

SpecFallback == InitFallback /\ [][NextFallback]_vars

\* C22: the degraded price path terminates.  After a failed request for all
\* the bars, get_prices_at_dates makes at most one request for bars per
\* requested date, and it returns, with a result (null where there is no
\* price) for every requested date, also when every request fails.
C22_DegradedPathBounded ==
    /\ bar_requests <= 1 + Len(dates)
    /\ fallback_result.done =>
           /\ ~fallback_result.raised
           /\ \A i \in 1..Len(dates) : dates[i] \in DOMAIN fallback_result.results

----------------------------------------------------------------------------
(* The retry loops of the two HTTP clients (jquants_client.py _request,      *)
(* edinet_client.py _request).  One call of _request; the upstream answers   *)
(* each attempt with a status, a connection error or a read timeout.         *)

\* jquants_client.py lines 23-25
MAX_RETRIES == 5
RETRY_DELAY == 2
RATE_LIMIT_WAIT == 60

\* edinet_client.py line 41: max_retries: int = 3
EdinetMaxRetries == 3

OkResponse == [kind |-> "status", status |-> 200]

StatusResponse(n) == [kind |-> "status", status |-> n]

\* requests.exceptions.ConnectionError
ConnectionFailure == [kind |-> "connection", status |-> 0]

\* requests.exceptions.ReadTimeout, a Timeout that is no ConnectionError
ReadTimeout == [kind |-> "timeout", status |-> 0]

\* what the upstream may answer to an attempt
Upstream ==
    {OkResponse, ConnectionFailure, ReadTimeout}
    \cup {StatusResponse(n) : n \in {401, 403, 404, 429, 500, 501, 503}}

RECURSIVE Pow2(_)
Pow2(k) == IF k = 0 THEN 1 ELSE 2 * Pow2(k - 1)

\* jquants_client.py lines 79-83 and edinet_client.py lines 43-44: without a
\* key the call raises ValueError before any request
MissingKey ==
    /\ request_outcome = "pending"
    /\ ~api_key
    /\ request_outcome' = "raised"
    /\ UNCHANGED <<client, api_key, responses, waits>>
    /\ UNCHANGED notRetry

\* jquants_client.py lines 87-128, one attempt; retry_count is the number
\* of attempts made before it
JQuantsAttempt(response) ==
    /\ client = "jquants"
    /\ request_outcome = "pending"
    /\ api_key
    /\ responses' = Append(responses, response)
    /\ \E retry_count \in {Len(responses)} :
        IF response = OkResponse
        THEN request_outcome' = "returned" /\ UNCHANGED waits
        ELSE IF response.kind = "status" /\ response.status = 429
        THEN IF retry_count < MAX_RETRIES
             THEN /\ waits' = Append(waits, RETRY_DELAY * Pow2(retry_count) + RATE_LIMIT_WAIT)
                  /\ UNCHANGED request_outcome
             ELSE request_outcome' = "raised" /\ UNCHANGED waits
        ELSE IF response.kind = "status"
        THEN request_outcome' = "raised" /\ UNCHANGED waits
        ELSE IF retry_count < MAX_RETRIES
             THEN /\ waits' = Append(waits, RETRY_DELAY * Pow2(retry_count))
                  /\ UNCHANGED request_outcome
             ELSE request_outcome' = "raised" /\ UNCHANGED waits
    /\ UNCHANGED <<client, api_key>>
    /\ UNCHANGED notRetry

\* edinet_client.py lines 51-88, one turn of the loop; attempt is the loop
\* variable.  The response carries no statusCode in its body.
EdinetAttempt(response) ==
    /\ client = "edinet"
    /\ request_outcome = "pending"
    /\ api_key
    /\ responses' = Append(responses, response)
    /\ \E attempt \in {Len(responses)} :
        /\ waits' = IF attempt > 0 THEN Append(waits, Pow2(attempt)) ELSE waits
        /\ request_outcome' =
               IF response = OkResponse THEN "returned"
               ELSE IF \/ (response.kind = "status"
                           /\ response.status \in {429, 500, 502, 503, 504})
                       \/ response.kind = "connection"
               THEN (IF attempt + 1 < EdinetMaxRetries THEN "pending" ELSE "raised")
               ELSE "raised"
    /\ UNCHANGED <<client, api_key>>
    /\ UNCHANGED notRetry

\* _request(endpoint, params) is called on one of the clients
InitRetry ==
    /\ client \in {"jquants", "edinet"}
    /\ api_key \in BOOLEAN
    /\ responses = <<>>
    /\ waits = <<>>
    /\ request_outcome = "pending"
    /\ today = [y |-> 2024, m |-> 3, d |-> 15]
    /\ ReconIdle
    /\ CalcIdle
    /\ PriceIdle
    /\ AnalyzeIdle
    /\ CacheIdle
    /\ FallbackIdle

NextRetry ==
    \/ MissingKey
    \/ \E response \in Upstream : JQuantsAttempt(response)
    \/ \E response \in Upstream : EdinetAttempt(response)

SpecRetry == InitRetry /\ [][NextRetry]_vars

\* a failure the policy retries: status 429, a 5xx status, a connection error
RetryableFailure(response) ==
    \/ response.kind = "connection"
    \/ response.kind = "status" /\ (response.status = 429 \/ response.status >= 500)

\* the attempts after which a client gives up
AttemptCeiling == IF client = "jquants" THEN 1 + MAX_RETRIES ELSE EdinetMaxRetries

\* C23: retry policy.  In both clients a call that keeps receiving the same
\* retryable failure (429, a 5xx status, a connection error) is attempted
\* again, with a longer wait each time, and raises after the fixed number
\* of attempts (J-Quants 1 + 5, filings 3); a 401 or 403 and a missing key
\* raise at once, with no second attempt.
C23_RetryPolicy ==
    /\ (responses # <<>> /\ RetryableFailure(responses[1])
          /\ \A i \in 1..Len(responses) : responses[i] = responses[1]) =>
            /\ request_outcome = "raised" => Len(responses) = AttemptCeiling
            /\ \A i \in 1..Len(waits) : \A j \in 1..Len(waits) :
                   i < j => waits[i] < waits[j]
    /\ (responses # <<>> /\ responses[1] \in {StatusResponse(401), StatusResponse(403)}) =>
            Len(responses) = 1 /\ request_outcome = "raised"
    /\ ~api_key => responses = <<>>

----------------------------------------------------------------------------
\* the flow fields of a period record
FlowFields == {"Sales", "OP", "NP", "EPS", "CFO", "CFI"}

\* record q4 is the difference of the FullYear record fy and the 3Q record
\* q3 of one fiscal year, in every flow field that both carry as a number
IsDifference(q4, fy, q3) ==
    /\ fy.CurPerType = "FY"
    /\ q3.CurPerType = "3Q"
    /\ fy.CurFYEn = q4.CurFYEn
    /\ q3.CurFYEn = q4.CurFYEn
    /\ \A f \in FlowFields :
           (fy[f].t = "num" /\ q3[f].t = "num") => q4[f] = Num(fy[f].v - q3[f].v)

\* C24: 4Q synthesis.  The quarter variant adds a synthesized 4Q record for
\* a fiscal year only when the list holds a FullYear record and a 3Q record
\* of that year, and each flow field of the 4Q is the FullYear value minus
\* the 3Q value; a year with a FullYear record and no 3Q record gets none.
C24_Q4Synthesis ==
    [][(variant = "quarterly" /\ calls = 0 /\ calls' = 1) =>
          \A k \in (Len(quarterly_data) + 1)..Len(quarterly_data') :
              \E i \in 1..Len(quarterly_data), j \in 1..Len(quarterly_data) :
                  IsDifference(quarterly_data'[k], quarterly_data[i], quarterly_data[j])]_vars

----------------------------------------------------------------------------
(* The shared result of a streaming analysis and its snapshots *)

\* a step of the producer task main_flow
MainWrites == MainFinancial \/ MainPrices \/ MainFinish

\* a step of the filing task edinet_flow
EdinetWrites == EdinetSearch \/ EdinetReport

\* C25: disjoint writers.  A step of the filing task changes no field of
\* the shared result but the filings, and a step of the main flow changes
\* the identity, the metrics, the status and the message and never the
\* filings, in every interleaving of the two tasks.
C25_DisjointWriters ==
    [][/\ EdinetWrites =>
            /\ result'.status = result.status
            /\ result'.message = result.message
            /\ result'.content = result.content
       /\ MainWrites => result'.filings = result.filings]_vars

\* the main flow has written the metrics with prices and the filing task
\* has written a report and has another one to write
C25_Witness ==
    /\ result # Null
    /\ result.content = "metrics with prices"
    /\ result.filings >= 1
    /\ edinet_task = "download"

\* what the object of a yielded or enqueued snapshot reads now.  The first
\* yield hands out the shared result itself (line 320: yield result); a
\* snapshot is result.copy(), a copy of the top level only, so a snapshot
\* taken when the result had its edinet_data holds that same dictionary,
\* to which edinet_flow adds (lines 305-309); an error snapshot is a
\* dictionary of its own.
Reads(snapshot, first) ==
    IF result = Null THEN snapshot
    ELSE IF first THEN result
    ELSE IF snapshot.status # "error" /\ snapshot.filings >= 1
         THEN [snapshot EXCEPT !.filings = result.filings]
         ELSE snapshot

\* the object reads the status, the metrics and the filings it was made with
Stable(snapshot, first) ==
    /\ Reads(snapshot, first).status = snapshot.status
    /\ Reads(snapshot, first).content = snapshot.content
    /\ Reads(snapshot, first).filings = snapshot.filings

\* C27: snapshot isolation.  Every snapshot that the stream has yielded or
\* has enqueued still reads the status, the metrics and the filing list it
\* had when it was produced, whatever the main flow and the filing task
\* have written to the shared result since.
C27_SnapshotIsolation ==
    /\ \A i \in 1..Len(outputs) : Stable(outputs[i], i = 1)
    /\ \A i \in 1..Len(queue) : Stable(queue[i], FALSE)

----------------------------------------------------------------------------
\* the list in the opposite order
Reversed(records) == [i \in 1..Len(records) |-> records[Len(records) + 1 - i]]

\* C26: order independence.  The timeline extract_annual_data returns
\* depends only on the multiset of the records it is given: the same
\* records in another order give the same timeline, also when two
\* revisions of one period carry the same disclosure date and different
\* field values.
C26_OrderIndependence ==
    calls = 1 =>
        result1 = extract_annual_data(Reversed(quarterly_data), FALSE, today)

----------------------------------------------------------------------------
\* C29: the merge never regresses a field to no data.  When a record kept
\* for a period carries a valid number in a financial field, the entry of
\* that period in the timeline carries a valid number in that field: no 0
\* and no NaN of a later-disclosed record of the period has replaced it.
C29_MergeNeverRegresses ==
    Returned =>
        \A i \in 1..Len(Timeline) : \A f \in FinKeys :
            (\E j \in KeptIndices(quarterly_data, FALSE, today) :
                /\ quarterly_data[j].CurFYEn = Timeline[i].CurFYEn
                /\ is_valid_value(quarterly_data[j][f]))
            => is_valid_value(Timeline[i][f])

----------------------------------------------------------------------------
(* Clearing the cache of one instrument (cache.py, clear_by_code), called   *)
(* by the route DELETE /cache/{code} with the five-digit code.  One thread:  *)
(* each call runs to its end before the next.                               *)

\* the five-digit codes of three instruments: 13300, 41330 and 22220
ClearCodes == {Fmt4(1330) \o <<Digit(0)>>, Fmt4(4133) \o <<Digit(0)>>,
               Fmt4(2222) \o <<Digit(0)>>}

\* "individual_analysis_"
KeyPrefix == <<105, 110, 100, 105, 118, 105, 100, 117, 97, 108, 95, 97, 110, 97, 108, 121, 115, 105, 115, 95>>

\* analyzer.py lines 197 and 357: cache_key = f"individual_analysis_{code}"
CacheKeyOf(code) == KeyPrefix \o code

ClearKeys == {CacheKeyOf(code) : code \in ClearCodes}

\* sub in key, for strings
Contains(key, sub) ==
    \E i \in 0..(Len(key) - Len(sub)) : SubSeq(key, i + 1, i + Len(sub)) = sub

\* a variant of Contains that asks for the key to end with the code
EndsWith(key, sub) ==
    /\ Len(key) >= Len(sub)
    /\ SubSeq(key, Len(key) - Len(sub) + 1, Len(key)) = sub

\* lines 193-203: the keys of the metadata that contain code[:4]
KeysToDelete(dir, code) ==
    {key \in DOMAIN dir.metadata :
        /\ dir.metadata[key].dated
        /\ Contains(key, SubSeq(code, 1, Min(4, Len(code))))}

\* lines 206-207 with clear(key), lines 142-151: the file of each such key
\* is removed and the key is deleted from the metadata
clear_by_code(dir, code) ==
    [file |-> [key \in DOMAIN dir.file |->
                  IF key \in KeysToDelete(dir, code) THEN Null ELSE dir.file[key]],
     metadata |-> [key \in DOMAIN dir.metadata |->
                  IF key \in KeysToDelete(dir, code) THEN Undated ELSE dir.metadata[key]]]

\* set(key, value) run to its end, lines 119-133
SetKey(key, value) ==
    /\ cache_dir' = [cache_dir EXCEPT
                        !.file[key] = value,
                        !.metadata[key] = [dated |-> TRUE, day |-> cache_clock.day]]
    /\ cache_stored' = [cache_stored EXCEPT
                           ![key] = [present |-> TRUE, value |-> value, at |-> cache_clock]]
    /\ UNCHANGED <<cache_clock, cache_threads, cache_got>>
    /\ UNCHANGED notCache

\* routers/analysis.py line 141: cache_manager.clear_by_code(code)
ClearByCode(code) ==
    /\ cache_dir' = clear_by_code(cache_dir, code)
    /\ cache_stored' = [key \in DOMAIN cache_stored |->
                           IF cache_dir'.file[key] = Null THEN NotStored
                           ELSE cache_stored[key]]
    /\ UNCHANGED <<cache_clock, cache_threads, cache_got>>
    /\ UNCHANGED notCache

\* __init__, lines 23-36: an empty cache directory
InitClear ==
    /\ ReconIdle
    /\ CalcIdle
    /\ PriceIdle
    /\ AnalyzeIdle
    /\ OtherIdle
    /\ today = [y |-> 2024, m |-> 3, d |-> 15]
    /\ cache_dir = [file |-> [key \in ClearKeys |-> Null],
                    metadata |-> [key \in ClearKeys |-> Undated]]
    /\ cache_clock = Instants[1]
    /\ cache_threads = [th \in CacheThreads |-> IdleThread]
    /\ cache_stored = [key \in ClearKeys |-> NotStored]
    /\ cache_got = NoGet

NextClear ==
    \/ \E key \in ClearKeys, value \in StoredResults : SetKey(key, value)
    \/ \E code \in ClearCodes : ClearByCode(code)
    \/ Tick

SpecClear == InitClear /\ [][NextClear]_vars

\* C28: cache clearing is per instrument.  clear_by_code(code) removes the
\* entry of every key of that instrument, and every entry whose key belongs
\* to another instrument code is still there after the call, with the same
\* value and the same date.
C28_ClearPerInstrument ==
    [][\A code \in ClearCodes :
          ClearByCode(code) =>
              \A other \in ClearCodes :
                  IF other = code
                  THEN /\ cache_dir'.file[CacheKeyOf(other)] = Null
                       /\ ~cache_dir'.metadata[CacheKeyOf(other)].dated
                  ELSE /\ cache_dir'.file[CacheKeyOf(other)]
                            = cache_dir.file[CacheKeyOf(other)]
                       /\ cache_dir'.metadata[CacheKeyOf(other)]
                            = cache_dir.metadata[CacheKeyOf(other)]]_vars

----------------------------------------------------------------------------
\* a complete snapshot is in the queue or has been yielded
CompleteProduced ==
    \/ \E i \in 1..Len(queue) : queue[i].status = "complete"
    \/ \E i \in 1..Len(outputs) : outputs[i].status = "complete"

\* C30: the cache is written only on success.  A step of a streaming
\* analysis that changes the cache entry of the instrument is the step in
\* which the result reaches "complete" and in which the complete snapshot
\* is put, none having been put before; a step that ends the analysis with
\* an error snapshot leaves the cache entry as it was.
C30_CacheOnSuccess ==
    [][cache_entry' # cache_entry =>
          /\ ~CompleteProduced
          /\ result'.status = "complete"
          /\ queue' = Append(queue, result')]_vars

====
